---------------------------- MODULE Spec2Model ----------------------------
(***************************************************************************)
(* A model of pymatgen's QChem input layer (pymatgen/io/qchemio.py):       *)
(* the QcTask constructor and its basis/ecp setters, the section           *)
(* serializer QcTask.__str__ and the section parser QcTask.from_string     *)
(* with its per-section sub-parsers.                                        *)
(*                                                                         *)
(* Python values are tagged records [t, v]; Python strings are TLA+        *)
(* strings, taken apart character by character with SubSeq, so that        *)
(* lower(), strip(), split() and the regular expressions of the source     *)
(* are computed, not assumed.                                              *)
(***************************************************************************)
EXTENDS Integers, Sequences, FiniteSets, TLC

(***************************************************************************)
(* Python string primitives                                                *)
(***************************************************************************)
CharAt(s, i) == SubSeq(s, i, i)

UPPER == "ABCDEFGHIJKLMNOPQRSTUVWXYZ"
LOWER == "abcdefghijklmnopqrstuvwxyz"
DIGITS == "0123456789"
\* The characters of the modelled texts in code order (sorted() compares by code).
ASCII == " $+-.0123456789=ABCDEFGHIJKLMNOPQRSTUVWXYZ_abcdefghijklmnopqrstuvwxyz"

\* Character tables, built once from the alphabets above.
CharsOf(s) == {CharAt(s, i) : i \in 1..Len(s)}
PositionIn(s) == [c \in CharsOf(s) |-> CHOOSE i \in 1..Len(s) : CharAt(s, i) = c]
UpperPos == PositionIn(UPPER)
LowerPos == PositionIn(LOWER)
DigitPos == PositionIn(DIGITS)
AsciiPos == PositionIn(ASCII)
UpperChars == DOMAIN UpperPos
LowerChars == DOMAIN LowerPos
DigitChars == DOMAIN DigitPos
LowerOf == [c \in UpperChars |-> CharAt(LOWER, UpperPos[c])]
UpperOf == [c \in LowerChars |-> CharAt(UPPER, LowerPos[c])]

RECURSIVE FindFrom(_, _, _)
FindFrom(c, s, i) ==
    IF i > Len(s) THEN 0 ELSE IF CharAt(s, i) = c THEN i ELSE FindFrom(c, s, i + 1)
\* s.find(c) + 1: the first place of character c in s, 0 when it has none
IndexIn(c, s) == FindFrom(c, s, 1)

IsDigit(c) == c \in DigitChars
IsAlpha(c) == c \in UpperChars \/ c \in LowerChars
\* \w of the re module
IsWord(c) == IsDigit(c) \/ IsAlpha(c) \/ c = "_"
IsSpace(c) == c \in {" ", "\t", "\n", "\r"}

LowerChar(c) == IF c \in UpperChars THEN LowerOf[c] ELSE c
UpperChar(c) == IF c \in LowerChars THEN UpperOf[c] ELSE c

RECURSIVE LowerFrom(_, _)
LowerFrom(s, i) ==
    IF i > Len(s) THEN "" ELSE LowerChar(CharAt(s, i)) \o LowerFrom(s, i + 1)
\* str.lower()
Lower(s) == LowerFrom(s, 1)

\* str.capitalize()
Capitalize(s) ==
    IF Len(s) = 0 THEN s ELSE UpperChar(CharAt(s, 1)) \o LowerFrom(s, 2)

RECURSIVE SkipSpace(_, _)
SkipSpace(s, i) ==
    IF i > Len(s) \/ ~IsSpace(CharAt(s, i)) THEN i ELSE SkipSpace(s, i + 1)
RECURSIVE SkipSpaceBack(_, _)
SkipSpaceBack(s, i) ==
    IF i < 1 \/ ~IsSpace(CharAt(s, i)) THEN i ELSE SkipSpaceBack(s, i - 1)
RECURSIVE SkipToken(_, _)
SkipToken(s, i) ==
    IF i > Len(s) \/ IsSpace(CharAt(s, i)) THEN i ELSE SkipToken(s, i + 1)

\* str.strip()
Strip(s) == SubSeq(s, SkipSpace(s, 1), SkipSpaceBack(s, Len(s)))

\* str.startswith()
StartsWith(s, p) == Len(s) >= Len(p) /\ SubSeq(s, 1, Len(p)) = p

\* `sub in s`
Contains(s, sub) ==
    \E i \in 1..(Len(s) - Len(sub) + 1) : SubSeq(s, i, i + Len(sub) - 1) = sub

RECURSIVE ReplaceFrom(_, _, _, _)
ReplaceFrom(s, a, b, i) ==
    IF i > Len(s) THEN ""
    ELSE (IF CharAt(s, i) = a THEN b ELSE CharAt(s, i))
             \o ReplaceFrom(s, a, b, i + 1)
\* str.replace() of one character by another
Replace(s, a, b) == ReplaceFrom(s, a, b, 1)

RECURSIVE SplitFrom(_, _)
SplitFrom(s, i) ==
    LET a == SkipSpace(s, i)
        b == SkipToken(s, a)
    IN  IF a > Len(s) THEN << >>
        ELSE <<SubSeq(s, a, b - 1)>> \o SplitFrom(s, b)
\* str.split() with no argument: the whitespace-separated tokens
Split(s) == SplitFrom(s, 1)

RECURSIVE SplitOnFrom(_, _, _)
SplitOnFrom(s, sep, i) ==
    LET j == FindFrom(sep, s, i)
    IN  IF j = 0 THEN <<SubSeq(s, i, Len(s))>>
        ELSE <<SubSeq(s, i, j - 1)>> \o SplitOnFrom(s, sep, j + 1)
\* str.split(sep) for a one-character separator
SplitOn(s, sep) == SplitOnFrom(s, sep, 1)

\* The places at or after i where sub starts in s.
PlacesOf(sub, s, i) ==
    {j \in i..(Len(s) - Len(sub) + 1) : SubSeq(s, j, j + Len(sub) - 1) = sub}
Least(P) == IF P = {} THEN 0 ELSE CHOOSE j \in P : \A k \in P : j <= k
\* s.find(sub, i - 1) + 1: the first place at or after i where sub starts in s
FindStrFrom(sub, s, i) == Least(PlacesOf(sub, s, i))
RECURSIVE SplitOnStrFrom(_, _, _)
SplitOnStrFrom(s, sep, i) ==
    LET j == FindStrFrom(sep, s, i)
    IN  IF j = 0 THEN <<SubSeq(s, i, Len(s))>>
        ELSE <<SubSeq(s, i, j - 1)>> \o SplitOnStrFrom(s, sep, j + Len(sep))
\* str.split(sep) for a separator of any length
SplitOnStr(s, sep) == SplitOnStrFrom(s, sep, 1)

RECURSIVE Join(_, _)
\* sep.join(seq)
Join(seq, sep) ==
    IF Len(seq) = 0 THEN ""
    ELSE IF Len(seq) = 1 THEN seq[1]
    ELSE seq[1] \o sep \o Join(Tail(seq), sep)

RECURSIVE Repeat(_, _)
Repeat(c, n) == IF n <= 0 THEN "" ELSE c \o Repeat(c, n - 1)

\* format spec {:>w}
PadLeft(s, w) == Repeat(" ", w - Len(s)) \o s
\* format spec {:<w}
PadRight(s, w) == s \o Repeat(" ", w - Len(s))

\* String comparison of sorted(): by character code, a prefix first.
Rank(c) == IF c \in DOMAIN AsciiPos THEN AsciiPos[c] ELSE 0
RECURSIVE StrLessFrom(_, _, _)
StrLessFrom(a, b, i) ==
    IF i > Len(a) THEN i <= Len(b)
    ELSE IF i > Len(b) THEN FALSE
    ELSE LET x == Rank(CharAt(a, i))
             y == Rank(CharAt(b, i))
         IN  IF x = y THEN StrLessFrom(a, b, i + 1) ELSE x < y
StrLess(a, b) == StrLessFrom(a, b, 1)

RECURSIVE Sorted(_)
\* sorted(list(S)) for a set of strings
Sorted(S) ==
    IF S = {} THEN << >>
    ELSE LET m == CHOOSE x \in S : \A y \in S \ {x} : StrLess(x, y)
         IN  <<m>> \o Sorted(S \ {m})

(***************************************************************************)
(* Python values.  None, bool, int, float, str and dict are told apart by  *)
(* the tag t; a float is <<m, e>> for m * 10^e with m not a multiple of 10 *)
(* (the shortest decimal that str() prints).                               *)
(***************************************************************************)
None == [t |-> "none", v |-> 0]
PyBool(b) == [t |-> "bool", v |-> b]
PyInt(i) == [t |-> "int", v |-> i]
PyStr(s) == [t |-> "str", v |-> s]
PyDict(d) == [t |-> "dict", v |-> d]

RECURSIVE NormFloat(_, _)
NormFloat(m, e) ==
    IF m = 0 THEN <<0, 0>>
    ELSE IF m % 10 = 0 THEN NormFloat(m \div 10, e + 1)
    ELSE <<m, e>>
PyFloat(m, e) == [t |-> "float", v |-> NormFloat(m, e)]

IsNone(x) == x.t = "none"
IsStr(x) == x.t = "str"
IsDict(x) == x.t = "dict"
\* isinstance(v, int): bool is a subclass of int
IsIntInstance(x) == x.t \in {"int", "bool"}
IsFloat(x) == x.t = "float"
\* Python truth value
Truthy(x) ==
    CASE x.t = "none" -> FALSE
      [] x.t = "bool" -> x.v
      [] x.t = "int" -> x.v # 0
      [] x.t = "float" -> x.v[1] # 0
      [] x.t = "str" -> x.v # ""
      [] x.t = "dict" -> DOMAIN x.v # {}
      [] OTHER -> TRUE

EmptyDict == [k \in {} |-> None]
\* d[k] = v
Put(d, k, val) == [x \in DOMAIN d \cup {k} |-> IF x = k THEN val ELSE d[x]]
\* dict.update(other)
Update(d, o) == [x \in DOMAIN d \cup DOMAIN o |-> IF x \in DOMAIN o THEN o[x] ELSE d[x]]

RECURSIVE NatStr(_)
NatStr(n) ==
    IF n < 10 THEN CharAt(DIGITS, n + 1)
    ELSE NatStr(n \div 10) \o CharAt(DIGITS, (n % 10) + 1)
\* str(int), format spec d
IntStr(n) == IF n < 0 THEN "-" \o NatStr(-n) ELSE NatStr(n)

RECURSIVE Pow10(_)
Pow10(n) == IF n <= 0 THEN 1 ELSE 10 * Pow10(n - 1)

AllDigits(s) == \A i \in 1..Len(s) : IsDigit(CharAt(s, i))

RECURSIVE ParseNatFrom(_, _, _)
ParseNatFrom(s, i, acc) ==
    IF i > Len(s) THEN acc
    ELSE ParseNatFrom(s, i + 1, 10 * acc + (DigitPos[CharAt(s, i)] - 1))
ParseNat(s) == ParseNatFrom(s, 1, 0)

HasSign(s) == Len(s) > 0 /\ CharAt(s, 1) \in {"-", "+"}
Unsigned(s) == IF HasSign(s) THEN SubSeq(s, 2, Len(s)) ELSE s
\* int(s) for a string the integer pattern accepts
ParseInt(s) ==
    IF HasSign(s) /\ CharAt(s, 1) = "-" THEN 0 - ParseNat(Unsigned(s))
    ELSE ParseNat(Unsigned(s))

\* re '^[-+]?\d+$'
int_pattern(s) == Len(Unsigned(s)) > 0 /\ AllDigits(Unsigned(s))

\* With(e, LAMBDA x : body) is body with x standing for e.
With(e, F(_)) == F(e)

DotAt(s) == IndexIn(".", s)
Earlier(a, b) == IF a = 0 THEN b ELSE IF b = 0 THEN a ELSE IF a < b THEN a ELSE b
\* The place of the first e or E, 0 when there is none.
ExpAt(s) == Earlier(IndexIn("e", s), IndexIn("E", s))

\* The pieces of a decimal literal: sign, digits before and after the point,
\* and the exponent text after e/E.
MantissaPieces(neg, mant, d, has_exp, ep) ==
    [neg |-> neg,
     has_dot |-> d # 0,
     ip |-> IF d = 0 THEN mant ELSE SubSeq(mant, 1, d - 1),
     fp |-> IF d = 0 THEN "" ELSE SubSeq(mant, d + 1, Len(mant)),
     has_exp |-> has_exp,
     ep |-> ep]
UnsignedPieces(neg, b, x) ==
    With(IF x = 0 THEN b ELSE SubSeq(b, 1, x - 1),
         LAMBDA mant : MantissaPieces(neg, mant, DotAt(mant), x # 0,
                                      IF x = 0 THEN "" ELSE SubSeq(b, x + 1, Len(b))))
FloatPieces(s) ==
    With(Unsigned(s),
         LAMBDA b : UnsignedPieces(HasSign(s) /\ CharAt(s, 1) = "-", b, ExpAt(b)))

PiecesWellFormed(p) ==
    /\ AllDigits(p.ip) /\ AllDigits(p.fp)
    /\ p.has_exp => int_pattern(p.ep)

\* re '^[-+]?\d+\.\d+([eE][-+]?\d+)?$'
float_pattern(s) ==
    With(FloatPieces(s),
         LAMBDA p : p.has_dot /\ Len(p.ip) > 0 /\ Len(p.fp) > 0 /\ PiecesWellFormed(p))

\* The strings float() takes: digits on at least one side of the point, the
\* point itself optional.
FloatLiteral(s) ==
    With(FloatPieces(s),
         LAMBDA p : Len(p.ip) + Len(p.fp) > 0 /\ PiecesWellFormed(p))

Signed(neg, m) == IF neg THEN 0 - m ELSE m
PiecesValue(p) ==
    NormFloat(Signed(p.neg, ParseNat(p.ip \o p.fp)),
              (IF p.has_exp THEN ParseInt(p.ep) ELSE 0) - Len(p.fp))
\* float(s) for a string float() takes, as <<m, e>>
ToFloat(s) == PiecesValue(FloatPieces(s))
ParseFloat(s) == [t |-> "float", v |-> ToFloat(s)]

\* float() of nan and of inf, which <<m, e>> has no place for.
FloatNan == <<0, 999>>
FloatInf(neg) == <<IF neg THEN 0 - 1 ELSE 1, 999>>
SpecialFloat(s) == Lower(Unsigned(s)) \in {"nan", "inf", "infinity"}
FloatTextStripped(s) == FloatLiteral(s) \/ SpecialFloat(s)
\* float(x) returns
IsFloatText(x) == FloatTextStripped(Strip(x))
FloatOfStripped(s) ==
    IF FloatLiteral(s) THEN ToFloat(s)
    ELSE IF Lower(Unsigned(s)) = "nan" THEN FloatNan
    ELSE FloatInf(CharAt(s, 1) = "-")

\* str(float) of Python 2: '%.12g', with '.0' added to a bare integer.
ExpDigits(xs) == IF Len(xs) < 2 THEN "0" \o xs ELSE xs
FloatStrOf(sgn, D, n, e, X) ==
    IF X < -4 \/ X >= 12
    THEN sgn \o CharAt(D, 1)
             \o (IF n > 1 THEN "." \o SubSeq(D, 2, n) ELSE "")
             \o "e" \o (IF X < 0 THEN "-" ELSE "+")
             \o ExpDigits(NatStr(IF X < 0 THEN 0 - X ELSE X))
    ELSE IF e >= 0 THEN sgn \o D \o Repeat("0", e) \o ".0"
    ELSE IF n + e > 0
    THEN sgn \o SubSeq(D, 1, n + e) \o "." \o SubSeq(D, n + e + 1, n)
    ELSE sgn \o "0." \o Repeat("0", 0 - (n + e)) \o D
FloatStr(f) ==
    IF f[1] = 0 THEN "0.0"
    ELSE With(NatStr(IF f[1] < 0 THEN 0 - f[1] ELSE f[1]),
              LAMBDA D : FloatStrOf(IF f[1] < 0 THEN "-" ELSE "", D, Len(D), f[2],
                                    Len(D) + f[2] - 1))

\* "{value}".format(value=x)
FormatValue(x) ==
    CASE x.t = "str" -> x.v
      [] x.t = "int" -> IntStr(x.v)
      [] x.t = "bool" -> IF x.v THEN "True" ELSE "False"
      [] x.t = "float" -> FloatStr(x.v)
      [] x.t = "none" -> "None"
      [] OTHER -> "{}"

(***************************************************************************)
(* Molecule (pymatgen.core.structure): only what QcTask reads of it.       *)
(* A site is [species, xyz], xyz three floats <<m, e>>.                    *)
(***************************************************************************)
\* Atomic numbers of the elements the model draws molecules from.
AtomicNumber == [el \in {"H", "Li", "C", "O", "Cd"} |->
                    CASE el = "H" -> 1 [] el = "Li" -> 3 [] el = "C" -> 6
                      [] el = "O" -> 8 [] OTHER -> 48]

Molecule(sites, charge, spin) ==
    [t |-> "mol", v |-> [sites |-> sites, charge |-> charge, spin |-> spin]]
IsMolecule(x) == x.t = "mol"

RECURSIVE SumZ(_)
SumZ(sites) ==
    IF Len(sites) = 0 THEN 0 ELSE AtomicNumber[sites[1].species] + SumZ(Tail(sites))
\* Molecule.nelectrons: the atomic numbers minus the molecule's own charge
MolNElectrons(mol) == SumZ(mol.v.sites) - mol.v.charge
\* set([site.species_string for site in mol.sites])
MolElements(mol) == {mol.v.sites[i].species : i \in 1..Len(mol.v.sites)}
\* Molecule.set_charge_and_spin
SetChargeAndSpin(mol, charge, spin) ==
    Molecule(mol.v.sites, charge, spin)

(***************************************************************************)
(* QcTask: class attributes                                                *)
(***************************************************************************)
optional_keywords_list ==
    {"basis", "ecp", "empirical_dispersion", "external_charges",
     "force_field_params", "intracule", "isotopes", "aux_basis",
     "localized_diabatization", "multipole_field", "nbo", "occupied",
     "swap_occupied_virtual", "opt", "pcm", "pcm_solvent", "plots",
     "qm_atoms", "svp", "svpirf", "van_der_waals", "xc_functional",
     "cdft", "efp_fragments", "efp_params"}

alternative_keys ==
    [k \in {"job_type", "symmetry_ignore", "scf_max_cycles"} |->
        CASE k = "job_type" -> "jobtype"
          [] k = "symmetry_ignore" -> "sym_ignore"
          [] OTHER -> "max_scf_cycles"]

alternative_values ==
    [k \in {"optimization", "frequency"} |->
        IF k = "optimization" THEN "opt" ELSE "freq"]

available_jobtypes ==
    {"sp", "opt", "ts", "freq", "force", "rpath", "nmr", "bsse", "eda",
     "pes_scan", "fsm", "aimd", "pimc", "makeefp"}

(***************************************************************************)
(* A call returns [err, task]: err = "" when it returns normally, else the *)
(* exception class it raises; task is the object as the call leaves it.    *)
(***************************************************************************)
Ok(task) == [err |-> "", task |-> task]
Raise(e, task) == [err |-> e, task |-> task]

Rem(task) == task.params["rem"].v
WithRem(task, k, val) ==
    [task EXCEPT !.params = Put(task.params, "rem", PyDict(Put(Rem(task), k, val)))]
WithSection(task, sec, val) ==
    [task EXCEPT !.params = Put(task.params, sec, val)]

\* bs[element.strip().capitalize()] = basis.lower(), for every item
ElementDict(d) ==
    LET keys == {Capitalize(Strip(k)) : k \in DOMAIN d}
    IN  [el \in keys |->
            LET k == CHOOSE x \in DOMAIN d : Capitalize(Strip(x)) = el
            IN  PyStr(Lower(d[k].v))]

\* `if self.mol:` followed by self.mol.sites : the "read" string is true and
\* has no sites.
SetBasisSetCheck(task, sec) ==
    IF ~Truthy(task.mol) THEN Ok(task)
    ELSE IF ~IsMolecule(task.mol) THEN Raise("AttributeError", task)
    ELSE LET mol_elements == MolElements(task.mol)
             basis_elements == DOMAIN task.params[sec].v
         IN  IF mol_elements \ basis_elements # {} THEN Raise("ValueError", task)
             ELSE IF basis_elements \ mol_elements # {} THEN Raise("ValueError", task)
             ELSE Ok(task)

set_basis_set(task, basis_set) ==
    IF IsStr(basis_set)
    THEN Ok(WithRem(task, "basis", PyStr(Lower(basis_set.v))))
    ELSE IF IsDict(basis_set)
    THEN SetBasisSetCheck(
             WithSection(WithRem(task, "basis", PyStr("gen")),
                         "basis", PyDict(ElementDict(basis_set.v))),
             "basis")
    ELSE Raise("Exception", task)

set_auxiliary_basis_set(task, aux_basis_set) ==
    IF IsStr(aux_basis_set)
    THEN Ok(WithRem(task, "aux_basis", PyStr(Lower(aux_basis_set.v))))
    ELSE IF IsDict(aux_basis_set)
    THEN SetBasisSetCheck(
             WithSection(WithRem(task, "aux_basis", PyStr("gen")),
                         "aux_basis", PyDict(ElementDict(aux_basis_set.v))),
             "aux_basis")
    ELSE Ok(task)

\* A variant of the ecp check that asks for the molecule's exact element set,
\* as the basis check does.
SetEcpCheck_Exact(task) ==
    IF ~Truthy(task.mol) THEN Ok(task)
    ELSE IF ~IsMolecule(task.mol) THEN Raise("AttributeError", task)
    ELSE IF DOMAIN task.params["ecp"].v # MolElements(task.mol)
    THEN Raise("ValueError", task)
    ELSE Ok(task)

\* `if self.mol:` and the comparison with the molecule's elements in set_ecp
SetEcpCheck(task) ==
    IF ~Truthy(task.mol) THEN Ok(task)
    ELSE IF ~IsMolecule(task.mol) THEN Raise("AttributeError", task)
    ELSE LET mol_elements == MolElements(task.mol)
             ecp_elements == DOMAIN task.params["ecp"].v
         IN  IF ecp_elements \ mol_elements # {} THEN Raise("ValueError", task)
             ELSE Ok(task)

set_ecp(task, ecp) ==
    IF IsStr(ecp)
    THEN Ok(WithRem(task, "ecp", PyStr(Lower(ecp.v))))
    ELSE IF IsDict(ecp)
    THEN SetEcpCheck(
             WithSection(WithRem(task, "ecp", PyStr("gen")),
                         "ecp", PyDict(ElementDict(ecp.v))))
    ELSE Ok(task)

(***************************************************************************)
(* QcTask.__init__                                                         *)
(***************************************************************************)
\* r, and then F on the object it left, unless r raised
Then(r, F(_)) == IF r.err # "" THEN r ELSE F(r.task)

IsRead(mol) == IsStr(mol) /\ mol.v = "read"

\* self.mol = copy.deepcopy(molecule) if molecule else "read", lower-cased
NormMolecule(molecule) ==
    IF ~Truthy(molecule) THEN PyStr("read")
    ELSE IF IsStr(molecule) THEN PyStr(Lower(molecule.v))
    ELSE molecule

\* A variant of the constructor's charge/spin step that counts the electrons
\* of the molecule as given, not of the job charge.
ResolveChargeSpin_MoleculeCharge(task, charge, spin_multiplicity) ==
    IF ~IsMolecule(task.mol) THEN Raise("ValueError", task)
    ELSE IF ~IsNone(spin_multiplicity)
              /\ (MolNElectrons(task.mol) + spin_multiplicity.v) % 2 # 1
    THEN Raise("ValueError", task)
    ELSE Ok([task EXCEPT
                !.charge = IF ~IsNone(charge) THEN charge
                           ELSE PyInt(task.mol.v.charge),
                !.spin_multiplicity =
                    IF ~IsNone(spin_multiplicity) THEN spin_multiplicity
                    ELSE IF MolNElectrons(task.mol) % 2 = 0 THEN PyInt(1)
                    ELSE PyInt(2)])

\* The charge and spin multiplicity of a Molecule job.
ResolveChargeSpin(task, charge, spin_multiplicity) ==
    IF ~IsMolecule(task.mol) THEN Raise("ValueError", task)
    ELSE LET c == IF ~IsNone(charge) THEN charge ELSE PyInt(task.mol.v.charge)
             nelectrons == task.mol.v.charge + MolNElectrons(task.mol) - c.v
         IN  IF ~IsNone(spin_multiplicity)
             THEN IF (nelectrons + spin_multiplicity.v) % 2 # 1
                  THEN Raise("ValueError", task)
                  ELSE Ok([task EXCEPT !.charge = c,
                                       !.spin_multiplicity = spin_multiplicity])
             ELSE Ok([task EXCEPT !.charge = c,
                                  !.spin_multiplicity =
                                      IF nelectrons % 2 = 0 THEN PyInt(1) ELSE PyInt(2)])

\* A variant of the set-together step that lets a lone charge or a lone spin
\* multiplicity through.
CheckSetTogether_Lenient(task) ==
    IF ~IsNone(task.charge) /\ ~IsNone(task.spin_multiplicity) /\ IsMolecule(task.mol)
    THEN Ok([task EXCEPT !.mol = SetChargeAndSpin(task.mol, task.charge.v,
                                                  task.spin_multiplicity.v)])
    ELSE Ok(task)

\* "spin multiplicity must be set together"
CheckSetTogether(task) ==
    IF IsNone(task.charge) # IsNone(task.spin_multiplicity)
    THEN Raise("ValueError", task)
    ELSE IF ~IsNone(task.charge) /\ IsMolecule(task.mol)
    THEN Ok([task EXCEPT !.mol = SetChargeAndSpin(task.mol, task.charge.v,
                                                  task.spin_multiplicity.v)])
    ELSE Ok(task)

InitMolecule(a) ==
    LET task == [mol |-> NormMolecule(a.molecule),
                 charge |-> a.charge,
                 spin_multiplicity |-> a.spin_multiplicity,
                 params |-> EmptyDict]
    IN  Then(IF IsRead(task.mol) THEN Ok(task)
             ELSE ResolveChargeSpin(task, a.charge, a.spin_multiplicity),
             CheckSetTogether)

\* jt = jobtype.lower(), through alternative_values
JobtypeChecked(jobtype) ==
    LET jt == Lower(jobtype)
    IN  IF jt \in DOMAIN alternative_values THEN alternative_values[jt] ELSE jt

\* self.params["rem"]["jobtype"] = ...
JobtypeStored(jobtype) == Lower(jobtype)

InitJobtype(a, task) ==
    IF ~IsStr(a.exchange) THEN Raise("AttributeError", task)
    ELSE IF ~IsStr(a.jobtype) THEN Raise("AttributeError", task)
    ELSE IF JobtypeChecked(a.jobtype.v) \notin available_jobtypes
    THEN Raise("ValueError", task)
    ELSE LET t1 == IF ~IsNone(a.title)
                   THEN WithSection(task, "comment", a.title) ELSE task
             t2 == WithSection(t1, "rem", PyDict(EmptyDict))
             t3 == WithRem(t2, "exchange", PyStr(Lower(a.exchange.v)))
             t4 == WithRem(t3, "jobtype", PyStr(JobtypeStored(a.jobtype.v)))
         IN  IF IsNone(a.correlation) THEN Ok(t4)
             ELSE IF ~IsStr(a.correlation) THEN Raise("AttributeError", t4)
             ELSE Ok(WithRem(t4, "correlation", PyStr(Lower(a.correlation.v))))

RemKey(k) ==
    LET kl == Lower(k)
    IN  IF kl \in DOMAIN alternative_keys THEN alternative_keys[kl] ELSE kl

RemValue(val) ==
    IF IsStr(val)
    THEN LET vl == Lower(val.v)
         IN  PyStr(IF vl \in DOMAIN alternative_values
                   THEN alternative_values[vl] ELSE vl)
    ELSE val

\* isinstance(v, str) or isinstance(v, int) or isinstance(v, float)
RemValueAllowed(val) == IsStr(val) \/ IsIntInstance(val) \/ IsFloat(val)

\* for k, v in rem_params.iteritems(): ...  (two keys with one normal form:
\* the winner is the dict's iteration order; the inputs have none)
InitRemParams(a, task) ==
    IF IsNone(a.rem_params) THEN Ok(task)
    ELSE LET d == a.rem_params.v
             keys == {RemKey(k) : k \in DOMAIN d}
             merged == [k \in DOMAIN Rem(task) \cup keys |->
                           IF k \in keys
                           THEN RemValue(d[CHOOSE x \in DOMAIN d : RemKey(x) = k])
                           ELSE Rem(task)[k]]
         IN  IF \E k \in DOMAIN d : ~RemValueAllowed(d[k])
             THEN Raise("ValueError", task)
             ELSE Ok(WithSection(task, "rem", PyDict(merged)))

InitOptionalParams(a, task) ==
    IF ~Truthy(a.optional_params) THEN Ok(task)
    ELSE LET op_key == {Lower(k) : k \in DOMAIN a.optional_params.v}
         IN  IF op_key \ optional_keywords_list # {}
             THEN Raise("ValueError", task)
             ELSE Ok([task EXCEPT !.params = Update(task.params, a.optional_params.v)])

_aux_basis_required(task) ==
    \/ /\ IsStr(Rem(task)["exchange"])
       /\ Rem(task)["exchange"].v \in {"xygjos", "xyg3", "lxygjos"}
    \/ /\ "correlation" \in DOMAIN Rem(task)
       /\ IsStr(Rem(task)["correlation"])
       /\ StartsWith(Rem(task)["correlation"].v, "ri")

\* .startswith of a correlation that is no string
AuxBasisRequiredRaises(task) ==
    /\ ~(IsStr(Rem(task)["exchange"])
         /\ Rem(task)["exchange"].v \in {"xygjos", "xyg3", "lxygjos"})
    /\ "correlation" \in DOMAIN Rem(task)
    /\ ~IsStr(Rem(task)["correlation"])

\* A variant of the auxiliary basis step that lets a job through without an
\* auxiliary basis when none is supplied and none is defaulted.
InitAuxBasis_Optional(a, task) ==
    IF ~IsNone(a.aux_basis_set)
    THEN set_auxiliary_basis_set(task, a.aux_basis_set)
    ELSE IF StartsWith(Rem(task)["basis"].v, "6-31+g")
    THEN set_auxiliary_basis_set(task, PyStr("rimp2-aug-cc-pvdz"))
    ELSE Ok(task)

InitAuxBasis(a, task) ==
    IF ~IsNone(a.aux_basis_set)
    THEN set_auxiliary_basis_set(task, a.aux_basis_set)
    ELSE IF AuxBasisRequiredRaises(task) THEN Raise("AttributeError", task)
    ELSE IF ~_aux_basis_required(task) THEN Ok(task)
    ELSE LET basis == Rem(task)["basis"].v
             r == IF StartsWith(basis, "6-31+g")
                  THEN set_auxiliary_basis_set(task, PyStr("rimp2-aug-cc-pvdz"))
                  ELSE IF StartsWith(basis, "6-311+g")
                  THEN set_auxiliary_basis_set(task, PyStr("rimp2-aug-cc-pvtz"))
                  ELSE Ok(task)
         IN  IF "aux_basis" \notin DOMAIN Rem(r.task)
             THEN Raise("ValueError", r.task)
             ELSE r

InitEcp(a, task) ==
    IF Truthy(a.ecp) THEN set_ecp(task, a.ecp) ELSE Ok(task)

\* QcTask(molecule, charge, spin_multiplicity, jobtype, title, exchange,
\*        correlation, basis_set, aux_basis_set, ecp, rem_params,
\*        optional_params)
QcTaskInit(a) ==
    Then(Then(Then(Then(Then(Then(InitMolecule(a),
        LAMBDA t : InitJobtype(a, t)),
        LAMBDA t : InitRemParams(a, t)),
        LAMBDA t : InitOptionalParams(a, t)),
        LAMBDA t : set_basis_set(t, a.basis_set)),
        LAMBDA t : InitAuxBasis(a, t)),
        LAMBDA t : InitEcp(a, t))

(***************************************************************************)
(* QcTask.__str__ and the section formatters                               *)
(***************************************************************************)
\* format spec .Nf of a float <<m, e>> (decimal rounding, half up)
FixedStr(f, n) ==
    LET m == f[1]
        e == f[2]
        a == IF m < 0 THEN 0 - m ELSE m
        scaled == IF e + n >= 0 THEN a * Pow10(e + n)
                  ELSE (a + Pow10(0 - (e + n)) \div 2) \div Pow10(0 - (e + n))
        ip == NatStr(scaled \div Pow10(n))
        fp == NatStr(scaled % Pow10(n))
    IN  (IF m < 0 THEN "-" ELSE "") \o ip \o "." \o Repeat("0", n - Len(fp)) \o fp

MaxLen(S) ==
    IF S = {} THEN 0 ELSE CHOOSE n \in {Len(x) : x \in S} : \A x \in S : Len(x) <= n

_format_comment(task) == <<" " \o Strip(task.params["comment"].v)>>

_format_molecule(task) ==
    (IF ~IsNone(task.charge)
     THEN <<" " \o IntStr(task.charge.v) \o "  " \o IntStr(task.spin_multiplicity.v)>>
     ELSE << >>)
    \o (IF IsRead(task.mol) THEN <<" read">>
        ELSE [i \in 1..Len(task.mol.v.sites) |->
                 LET site == task.mol.v.sites[i]
                 IN  " " \o PadRight(site.species, 4)
                         \o " " \o PadLeft(FixedStr(site.xyz[1], 8), 17)
                         \o " " \o PadLeft(FixedStr(site.xyz[2], 8), 17)
                         \o " " \o PadLeft(FixedStr(site.xyz[3], 8), 17)])

_format_rem(task) ==
    LET rem == Rem(task)
        name_width == MaxLen(DOMAIN rem)
        priority_keys == <<"jobtype", "exchange", "basis">>
        additional_keys == DOMAIN rem \ {"jobtype", "exchange", "basis"}
        ordered_keys == priority_keys \o Sorted(additional_keys)
    IN  [i \in 1..Len(ordered_keys) |->
            "  " \o PadLeft(ordered_keys[i], name_width) \o " = "
                 \o FormatValue(rem[ordered_keys[i]])]

\* _format_basis, _format_aux_basis, _format_ecp
FormatElementSection(task, sec) ==
    LET d == task.params[sec].v
        els == Sorted(DOMAIN d)
    IN  [i \in 1..(3 * Len(els)) |->
            LET el == els[(i + 2) \div 3]
            IN  CASE i % 3 = 1 -> " " \o el
                  [] i % 3 = 2 -> " " \o d[el].v
                  [] OTHER -> " ****"]

_format_pcm(task) ==
    LET d == task.params["pcm"].v
        name_width == MaxLen(DOMAIN d)
        keys == Sorted(DOMAIN d)
    IN  [i \in 1..Len(keys) |->
            "  " \o PadLeft(keys[i], name_width) \o "   " \o FormatValue(d[keys[i]])]

\* "{:<4d} {:<4d} {:<4d} {:4.2f}".format(*v)
FormatSolventAtom(sa) ==
    PadRight(IntStr(sa[1]), 4) \o " " \o PadRight(IntStr(sa[2]), 4) \o " "
        \o PadRight(IntStr(sa[3]), 4) \o " " \o PadLeft(FixedStr(sa[4], 2), 4)

RECURSIVE Flatten(_)
Flatten(ss) == IF Len(ss) = 0 THEN << >> ELSE ss[1] \o Flatten(Tail(ss))

_format_pcm_solvent(task) ==
    LET d == task.params["pcm_solvent"].v
        name_width == MaxLen(DOMAIN d)
        all_keys == DOMAIN d
        pri == <<"dielectric", "nonels", "nsolventatoms", "solventatom">>
        priority_keys == SelectSeq(pri, LAMBDA k : k \in all_keys)
        additional_keys == all_keys \ {pri[i] : i \in 1..Len(pri)}
        ordered_keys == priority_keys \o Sorted(additional_keys)
        line(name, value) == "  " \o PadLeft(name, name_width) \o "   " \o value
    IN  Flatten([i \in 1..Len(ordered_keys) |->
            LET name == ordered_keys[i]
            IN  IF name = "solventatom"
                THEN [j \in 1..Len(d[name].v) |->
                         line(name, FormatSolventAtom(d[name].v[j]))]
                ELSE <<line(name, FormatValue(d[name]))>>])

\* The sections that have a _format_<name> method.
FormattedSections ==
    {"comment", "molecule", "rem", "basis", "aux_basis", "ecp", "pcm", "pcm_solvent"}

FormatSection(task, sec) ==
    CASE sec = "comment" -> _format_comment(task)
      [] sec = "molecule" -> _format_molecule(task)
      [] sec = "rem" -> _format_rem(task)
      [] sec = "pcm" -> _format_pcm(task)
      [] sec = "pcm_solvent" -> _format_pcm_solvent(task)
      [] OTHER -> FormatElementSection(task, sec)

\* sections = ["comment", "molecule", "rem"] + sorted(optional_keywords_list)
SectionOrder == <<"comment", "molecule", "rem">> \o Sorted(optional_keywords_list)

\* The sections __str__ emits, in order.
EmittedSections(task) ==
    SelectSeq(SectionOrder, LAMBDA sec : sec \in DOMAIN task.params \/ sec = "molecule")

\* str(task): [err, text]
QcTaskStr(task) ==
    LET secs == EmittedSections(task)
    IN  IF \E i \in 1..Len(secs) : secs[i] \notin FormattedSections
        THEN [err |-> "AttributeError", text |-> ""]
        ELSE [err |-> "",
              text |-> Join(Flatten([i \in 1..Len(secs) |->
                           <<"$" \o secs[i]>> \o FormatSection(task, secs[i])
                               \o <<"$end", "\n">>]), "\n")]

(***************************************************************************)
(* The section parsers.  A parser returns [err, val].                      *)
(***************************************************************************)
Val(x) == [err |-> "", val |-> x]
Err(e) == [err |-> e, val |-> None]

\* '\n'.join(contents).strip()
_parse_comment(contents) == Val(PyStr(Strip(Join(contents, "\n"))))

\* re.split("[,\s]+", l.strip())
CoordTokens(l) == Split(Replace(Strip(l), ",", " "))

IsNumChar(c) == IsDigit(c) \/ c \in {".", "e", "E", "-"}
IsTailChar(c) == IsWord(c) \/ IsSpace(c) \/ c \in {"-", ".", ","}

\* xyz_patt on a stripped line l whose tokens are toks
XyzMatch(l, toks) ==
    /\ Len(toks) >= 4
    /\ Len(l) > 0 /\ IsWord(CharAt(l, 1))
    /\ \A i \in 1..Len(toks[1]) : IsWord(CharAt(toks[1], i))
    /\ \A k \in 2..3 : \A i \in 1..Len(toks[k]) : IsNumChar(CharAt(toks[k], i))
    /\ IsNumChar(CharAt(toks[4], 1))
    /\ \A i \in 1..Len(l) : IsTailChar(CharAt(l, i))
\* re "^(\w+)[\s,]+([\d\.eE\-]+)[\s,]+([\d\.eE\-]+)[\s,]+([\d\.eE\-]+)[\-\.\s,\w.]*$"
xyz_patt(l) == XyzMatch(l, CoordTokens(l))

\* re "^(\w+)*([\s,]+(\w+)[\s,]+(\w+))*[\-\.\s,\w]*$"
zmat_patt(l) == \A i \in 1..Len(l) : IsTailChar(CharAt(l, i))

RECURSIVE StripDigits(_)
\* re.sub("\d", "", sp_str)
StripDigits(x) ==
    IF Len(x) = 0 THEN ""
    ELSE (IF IsDigit(CharAt(x, 1)) THEN "" ELSE CharAt(x, 1))
             \o StripDigits(SubSeq(x, 2, Len(x)))

\* The element Molecule makes of an atomic number, "" when it knows none.
ElementOf(z) ==
    IF \E el \in DOMAIN AtomicNumber : AtomicNumber[el] = z
    THEN CHOOSE el \in DOMAIN AtomicNumber : AtomicNumber[el] = z
    ELSE ""
\* parse_species
ParseSpecies(sp_str) ==
    IF int_pattern(sp_str) THEN ElementOf(ParseInt(sp_str))
    ELSE Capitalize(StripDigits(sp_str))

\* The coordinates of a Z-matrix line: computed by the Geometry Builder,
\* which this model does not evaluate.
ZmatCoords == <<"zmat">>

\* toks[2:5] when there are more than four tokens, else toks[1:4]
CoordFields(toks) == IF Len(toks) > 4 THEN SubSeq(toks, 3, 5) ELSE SubSeq(toks, 2, 4)

\* re "^([A-Za-z]+\S*)[\s=,]+([\d\-\.]+)$" on a stripped line: the places
\* <<i, j>> where the name ends and the number starts
IsVarSep(c) == IsSpace(c) \/ c \in {"=", ","}
IsVarNum(c) == IsDigit(c) \/ c \in {"-", "."}
VarSplits(l) ==
    {p \in (1..Len(l)) \X (1..Len(l)) :
        /\ p[1] < p[2] - 1
        /\ IsAlpha(CharAt(l, 1))
        /\ \A k \in 1..p[1] : ~IsSpace(CharAt(l, k))
        /\ \A k \in (p[1] + 1)..(p[2] - 1) : IsVarSep(CharAt(l, k))
        /\ \A k \in p[2]..Len(l) : IsVarNum(CharAt(l, k))}
\* The match the greedy name takes
VarSplit(S) == CHOOSE p \in S : \A q \in S : q[1] <= p[1]
VarEntry(l, p) == [name |-> SubSeq(l, 1, p[1]), num |-> SubSeq(l, p[2], Len(l))]
RECURSIVE ParasFrom(_, _)
\* The first loop of _parse_coords: paras[m.group(1)] = float(m.group(2))
ParasFrom(coord_lines, r) ==
    IF Len(coord_lines) = 0 \/ r.err # "" THEN r
    ELSE IF VarSplits(Strip(coord_lines[1])) = {} THEN ParasFrom(Tail(coord_lines), r)
    ELSE With(VarEntry(Strip(coord_lines[1]), VarSplit(VarSplits(Strip(coord_lines[1])))),
              LAMBDA m : IF ~FloatTextStripped(m.num)
                         THEN [r EXCEPT !.err = "ValueError"]
                         ELSE ParasFrom(Tail(coord_lines),
                                        [r EXCEPT !.paras = @ \cup {m.name}]))

\* species.index(ind) + 1
IndexOf(species, ind) == Least({i \in 1..Len(species) : species[i] = ind})
\* The variable a Z-matrix value names: data[1:] after a minus sign
ParaName(data) ==
    IF Len(data) > 0 /\ CharAt(data, 1) = "-" THEN SubSeq(data, 2, Len(data)) ELSE data
RECURSIVE ZmatRefs(_, _, _, _)
\* `while len(toks) > 1:` of the Z-matrix branch: [err, nn], a parameter read
\* for every entry of nn
ZmatRefs(toks, species, paras, nn) ==
    IF Len(toks) <= 1 THEN [err |-> "", nn |-> nn]
    ELSE IF ~int_pattern(toks[1]) /\ IndexOf(species, toks[1]) = 0
    THEN [err |-> "ValueError", nn |-> nn]
    ELSE IF ~FloatTextStripped(toks[2]) /\ ParaName(toks[2]) \notin paras
    THEN [err |-> "KeyError", nn |-> nn]
    ELSE ZmatRefs(SubSeq(toks, 3, Len(toks)), species, paras,
                  Append(nn, IF int_pattern(toks[1]) THEN ParseInt(toks[1])
                             ELSE IndexOf(species, toks[1])))
\* coords[n - 1] of a list of len entries is an entry
Indexable(n, len) == 0 - len <= n - 1 /\ n - 1 < len
\* The atom the Z-matrix branch places by the atoms nn names, st the state
\* with the species appended
ZmatPlaced(st, r) ==
    IF r.err # "" THEN [st EXCEPT !.err = r.err]
    ELSE IF Len(r.nn) = 1 THEN [st EXCEPT !.coords = Append(@, ZmatCoords)]
    ELSE IF Len(r.nn) \in {2, 3}
    THEN IF \E k \in 1..Len(r.nn) : ~Indexable(r.nn[k], Len(st.coords))
         THEN [st EXCEPT !.err = "IndexError"]
         ELSE [st EXCEPT !.coords = Append(@, ZmatCoords)]
    ELSE st
\* The Z-matrix branch, toks the tokens of the line
ZmatLine(st, toks) ==
    IF Len(toks) = 1
    THEN [st EXCEPT !.zmode = TRUE, !.species = Append(@, toks[1]),
                    !.coords = Append(@, <<<<0, 0>>, <<0, 0>>, <<0, 0>>>>)]
    ELSE ZmatPlaced([st EXCEPT !.zmode = TRUE, !.species = Append(@, toks[1])],
                    ZmatRefs(Tail(toks), Append(st.species, toks[1]), st.paras, << >>))
\* The Cartesian branch, num the coordinate fields of the line
XyzLine(st, toks, num) ==
    IF Len(num) < 3 \/ \E i \in 1..3 : ~FloatTextStripped(num[i])
    THEN [st EXCEPT !.err = "ValueError"]
    ELSE [st EXCEPT !.species = Append(@, toks[1]),
                    !.coords = Append(@, <<FloatOfStripped(num[1]), FloatOfStripped(num[2]),
                                           FloatOfStripped(num[3])>>)]

\* A loop turn that takes every line of Cartesian shape as Cartesian.
CoordLine_NoZmode(st, l, toks) ==
    IF l = "" THEN [st EXCEPT !.stop = TRUE]
    ELSE IF XyzMatch(l, toks) THEN XyzLine(st, toks, CoordFields(toks))
    ELSE IF zmat_patt(l) THEN ZmatLine(st, toks)
    ELSE st
\* One turn of the second loop of _parse_coords: st = [err, zmode, species,
\* coords, stop, paras], l the stripped line, toks its tokens.
CoordLine(st, l, toks) ==
    IF l = "" THEN [st EXCEPT !.stop = TRUE]
    ELSE IF ~st.zmode /\ XyzMatch(l, toks) THEN XyzLine(st, toks, CoordFields(toks))
    ELSE IF zmat_patt(l) THEN ZmatLine(st, toks)
    ELSE st
ParseCoordLine(st, l) == CoordLine(st, l, CoordTokens(l))

RECURSIVE ParseCoordLines(_, _)
ParseCoordLines(coord_lines, st) ==
    IF Len(coord_lines) = 0 \/ st.err # "" \/ st.stop THEN st
    ELSE ParseCoordLines(Tail(coord_lines), ParseCoordLine(st, Strip(coord_lines[1])))

\* species = map(parse_species, species)
ParsedSites(sites) ==
    [i \in 1..Len(sites) |->
        [species |-> ParseSpecies(sites[i].species), xyz |-> sites[i].xyz]]
\* Molecule(species, coords), which rejects an unknown element
MoleculeOf(sites) ==
    IF \E i \in 1..Len(sites) : sites[i].species \notin DOMAIN AtomicNumber
    THEN Err("ValueError")
    ELSE Val(Molecule(sites, 0, 1))
\* Molecule(species, coords) takes as many coordinates as species.
CoordsResult(st) ==
    IF st.err # "" THEN Err(st.err)
    ELSE IF Len(st.species) # Len(st.coords) THEN Err("StructureError")
    ELSE MoleculeOf(ParsedSites([i \in 1..Len(st.species) |->
                                    [species |-> st.species[i], xyz |-> st.coords[i]]]))
\* The locals of _parse_coords when its second loop starts
CoordsStart(r) ==
    [err |-> r.err, zmode |-> FALSE, species |-> << >>, coords |-> << >>,
     stop |-> FALSE, paras |-> r.paras]
_parse_coords(coord_lines) ==
    CoordsResult(ParseCoordLines(coord_lines,
                     CoordsStart(ParasFrom(coord_lines, [err |-> "", paras |-> {}]))))

RECURSIVE LeadingDigits(_, _)
\* How many digits s has from place i on, counted from the start of s.
LeadingDigits(s, i) ==
    IF i > Len(s) \/ ~IsDigit(CharAt(s, i)) THEN i - 1 ELSE LeadingDigits(s, i + 1)
ChargeMulti(c, after, mlen) ==
    IF int_pattern(c) /\ mlen > 0
    THEN [ok |-> TRUE, charge |-> ParseInt(c),
          multi |-> ParseNat(SubSeq(after, 1, mlen))]
    ELSE [ok |-> FALSE, charge |-> 0, multi |-> 0]
ChargeMultiTokens(c, after) == ChargeMulti(c, after, LeadingDigits(after, 1))
ChargeMultiOf(toks) ==
    ChargeMultiTokens(IF Len(toks) > 0 THEN toks[1] ELSE "",
                      IF Len(toks) > 1 THEN toks[2] ELSE "")
\* re '\s*(?P<charge>[-+]?\d+)\s+(?P<multi>\d+)' matched at the start of the
\* line: [ok, charge, multi]
charge_multi_pattern(line) == ChargeMultiOf(Split(line))

MoleculeWith(r, m) ==
    IF r.err # "" THEN r
    ELSE Val(<<SetChargeAndSpin(r.val, m.charge, m.multi),
               PyInt(m.charge), PyInt(m.multi)>>)
\* A variant of _parse_molecule that returns no charge and no spin
\* multiplicity for a "read" molecule.
MoleculeBody_ReadUnset(contents, m, line) ==
    IF Lower(Strip(line)) = "read" THEN Val(<<PyStr("read"), None, None>>)
    ELSE IF ~m.ok THEN Err("ValueError")
    ELSE MoleculeWith(_parse_coords(Tail(contents)), m)
\* _parse_molecule after the charge line: m is its match, line the next line
MoleculeBody(contents, m, line) ==
    IF Lower(Strip(line)) = "read"
    THEN Val(<<PyStr("read"),
               IF m.ok THEN PyInt(m.charge) ELSE None,
               IF m.ok THEN PyInt(m.multi) ELSE None>>)
    ELSE IF ~m.ok THEN Err("ValueError")
    ELSE MoleculeWith(_parse_coords(Tail(contents)), m)
MoleculeHeader(contents, m) ==
    IF m.ok /\ Len(contents) < 2 THEN Err("IndexError")
    ELSE MoleculeBody(contents, m, IF m.ok THEN contents[2] ELSE contents[1])
\* _parse_molecule: val = <<mol, charge, spin_multiplicity>>
_parse_molecule(contents) ==
    IF Len(contents) = 0 THEN Err("IndexError")
    ELSE MoleculeHeader(contents, charge_multi_pattern(contents[1]))

\* tokens = line.strip().replace("=", ' ').split()
KeyValueTokens(line) == Split(Replace(Strip(line), "=", " "))

\* The value a key/value parser stores for token v once the special keys are
\* dealt with.  A token that is a key of alternative_values has been replaced
\* by the alternative_values dict itself, which no regular expression takes.
TypedValue(v) ==
    IF v \in DOMAIN alternative_values THEN Err("TypeError")
    ELSE IF v = "True" THEN Val(PyBool(TRUE))
    ELSE IF v = "False" THEN Val(PyBool(FALSE))
    ELSE IF int_pattern(v) THEN Val(PyInt(ParseInt(v)))
    ELSE IF float_pattern(v) THEN Val(ParseFloat(v))
    ELSE Val(PyStr(Lower(v)))

\* v after `if v in cls.alternative_values: v = cls.alternative_values`
AliasedToken(v) ==
    IF v \in DOMAIN alternative_values
    THEN PyDict([k \in DOMAIN alternative_values |-> PyStr(alternative_values[k])])
    ELSE PyStr(v)

\* What a line adds to d: [err, key, val]
Entry(k2, r) == [err |-> r.err, key |-> k2, val |-> r.val]
NoEntry(e, k2) == [err |-> e, key |-> k2, val |-> None]

RemEntry(k2, v) ==
    Entry(k2, IF k2 = "xc_grid" THEN Val(AliasedToken(v)) ELSE TypedValue(v))
RemTokensEntry(tokens) ==
    IF Len(tokens) < 2 THEN NoEntry("ValueError", "")
    ELSE RemEntry(RemKey(tokens[1]), tokens[2])
\* One line of $rem
ParseRemLine(line) == RemTokensEntry(KeyValueTokens(line))

PcmTokensEntry(tokens) ==
    IF Len(tokens) < 2 THEN NoEntry("ValueError", "")
    ELSE Entry(RemKey(tokens[1]), TypedValue(tokens[2]))
\* One line of $pcm: as $rem, without the xc_grid case
ParsePcmLine(line) == PcmTokensEntry(KeyValueTokens(line))

PyList(x) == [t |-> "list", v |-> x]
\* d[k2].append(v), or d[k2] = [v]
Appended(d, k2, sa) ==
    IF k2 \in DOMAIN d THEN PyList(Append(d[k2].v, sa)) ELSE PyList(<<sa>>)
\* v = [int(i) for i in tokens[1:4]]; v.append(float(tokens[4]))
SolventAtomEntry(tokens, d, k2) ==
    IF \E i \in 2..4 : i <= Len(tokens) /\ ~int_pattern(tokens[i])
    THEN NoEntry("ValueError", k2)
    ELSE IF Len(tokens) < 5 THEN NoEntry("IndexError", k2)
    ELSE IF ~FloatLiteral(tokens[5]) THEN NoEntry("ValueError", k2)
    ELSE [err |-> "", key |-> k2,
          val |-> Appended(d, k2, <<ParseInt(tokens[2]), ParseInt(tokens[3]),
                                    ParseInt(tokens[4]), ToFloat(tokens[5])>>)]
PcmSolventEntry(tokens, d, k2) ==
    IF k2 = "solventatom" THEN SolventAtomEntry(tokens, d, k2)
    ELSE Entry(k2, TypedValue(tokens[2]))
PcmSolventTokensEntry(tokens, d) ==
    IF Len(tokens) < 2 THEN NoEntry("ValueError", "")
    ELSE PcmSolventEntry(tokens, d, RemKey(tokens[1]))
\* One line of $pcm_solvent: solventatom accumulates <<int, int, int, float>>
ParsePcmSolventLine(line, d) == PcmSolventTokensEntry(KeyValueTokens(line), d)

ParseKeyValueLine(line, d, sec) ==
    CASE sec = "rem" -> ParseRemLine(line)
      [] sec = "pcm" -> ParsePcmLine(line)
      [] OTHER -> ParsePcmSolventLine(line, d)

\* `for line in contents:` of _parse_rem, _parse_pcm and _parse_pcm_solvent
RECURSIVE ParseKeyValueLines(_, _, _)
AfterEntry(contents, d, sec, r) ==
    IF r.err # "" THEN Err(r.err)
    ELSE ParseKeyValueLines(Tail(contents), Put(d, r.key, r.val), sec)
ParseKeyValueLines(contents, d, sec) ==
    IF Len(contents) = 0 THEN Val(PyDict(d))
    ELSE AfterEntry(contents, d, sec, ParseKeyValueLine(contents[1], d, sec))

_parse_rem(contents) == ParseKeyValueLines(contents, EmptyDict, "rem")
_parse_pcm(contents) == ParseKeyValueLines(contents, EmptyDict, "pcm")
_parse_pcm_solvent(contents) == ParseKeyValueLines(contents, EmptyDict, "pcm_solvent")

\* d[element.strip().capitalize()] = basis.strip().lower() for each chunk of
\* three lines; a later chunk overwrites an earlier one of the same element.
RECURSIVE ElementChunks(_, _)
ElementChunks(contents, d) ==
    IF Len(contents) < 3 THEN d
    ELSE ElementChunks(SubSeq(contents, 4, Len(contents)),
                       Put(d, Capitalize(Strip(contents[1])),
                           PyStr(Lower(Strip(contents[2])))))
\* _parse_basis, _parse_aux_basis, _parse_ecp
ParseElementSection(contents) ==
    IF Len(contents) % 3 # 0 THEN Err("ValueError")
    ELSE Val(PyDict(ElementChunks(contents, EmptyDict)))

\* The names with a _parse_<name> classmethod that take a section's lines.
ParsedSections ==
    {"comment", "molecule", "rem", "aux_basis", "basis", "ecp", "pcm", "pcm_solvent"}

ParseSection(section_name, section_text) ==
    CASE section_name = "comment" -> _parse_comment(section_text)
      [] section_name = "molecule" -> _parse_molecule(section_text)
      [] section_name = "rem" -> _parse_rem(section_text)
      [] section_name = "pcm" -> _parse_pcm(section_text)
      [] section_name = "pcm_solvent" -> _parse_pcm_solvent(section_text)
      [] OTHER -> ParseElementSection(section_text)

(***************************************************************************)
(* QcTask.from_string                                                      *)
(***************************************************************************)
available_sections == {"comment", "molecule", "rem"} \cup optional_keywords_list

\* A section header line: l[1:] is the section name.
OpenSection(st, section_name) ==
    IF section_name \notin available_sections THEN [st EXCEPT !.err = "ValueError"]
    ELSE IF section_name \in DOMAIN st.params THEN [st EXCEPT !.err = "ValueError"]
    ELSE [st EXCEPT !.parse_section = TRUE, !.section_name = section_name]

\* What the $end line stores of the section's parse result r.
StoreSection(st, r) ==
    IF r.err # "" THEN [st EXCEPT !.err = r.err]
    ELSE IF st.section_name = "molecule"
    THEN [st EXCEPT !.parse_section = FALSE, !.section_name = "",
                    !.section_text = << >>,
                    !.mol = r.val[1], !.charge = r.val[2],
                    !.spin_multiplicity = r.val[3]]
    ELSE [st EXCEPT !.parse_section = FALSE, !.section_name = "",
                    !.section_text = << >>,
                    !.params = Put(@, st.section_name, r.val)]

\* A variant of the $end step that hands a section without a parser of its
\* own to the element-section parser.
CloseSection_AnyParser(st) ==
    StoreSection(st, ParseSection(st.section_name, st.section_text))

\* The $end line: getattr(cls, "_parse_" + section_name)(section_text)
CloseSection(st) ==
    IF st.section_name \notin ParsedSections THEN [st EXCEPT !.err = "Exception"]
    ELSE StoreSection(st, ParseSection(st.section_name, st.section_text))

\* One turn of the loop over the lines, l = line.strip().lower():
\* st = [err, parse_section, section_name, section_text, params, mol, charge,
\* spin_multiplicity]
ScanStripped(st, line, l) ==
    IF Len(l) = 0 THEN st
    ELSE IF ~st.parse_section /\ (l = "$end" \/ ~StartsWith(l, "$"))
    THEN [st EXCEPT !.err = "ValueError"]
    ELSE IF st.parse_section /\ l # "$end"
    THEN [st EXCEPT !.section_text = Append(@, line)]
    ELSE IF ~st.parse_section THEN OpenSection(st, SubSeq(l, 2, Len(l)))
    ELSE CloseSection(st)
ScanLine(st, line) == ScanStripped(st, line, Lower(Strip(line)))

RECURSIVE ScanLines(_, _)
ScanLines(st, lines) ==
    IF Len(lines) = 0 \/ st.err # "" THEN st
    ELSE ScanLines(ScanLine(st, lines[1]), Tail(lines))

ScanStart ==
    [err |-> "", parse_section |-> FALSE, section_name |-> "",
     section_text |-> << >>, params |-> EmptyDict,
     mol |-> None, charge |-> None, spin_multiplicity |-> None]

\* A variant of the end-of-text step that accepts a section left open.
ScanEnd_Lenient(st) == st

\* `if parse_section: raise ValueError(... is not terminated)`
ScanEnd(st) ==
    IF st.err = "" /\ st.parse_section THEN [st EXCEPT !.err = "ValueError"] ELSE st
\* The sections read from a text, before the constructor is called.
ScanSections(contents) == ScanEnd(ScanLines(ScanStart, SplitOn(contents, "\n")))

Get(d, k, default) == IF k \in DOMAIN d THEN d[k] ELSE default

\* The constructor call that ends from_string.
FromStringArgs(st) ==
    [molecule |-> st.mol,
     charge |-> st.charge,
     spin_multiplicity |-> st.spin_multiplicity,
     jobtype |-> st.params["rem"].v["jobtype"],
     title |-> Get(st.params, "comment", None),
     exchange |-> Get(st.params["rem"].v, "exchange", PyStr("hf")),
     correlation |-> Get(st.params["rem"].v, "correlation", None),
     basis_set |-> st.params["rem"].v["basis"],
     aux_basis_set |-> Get(st.params["rem"].v, "aux_basis", None),
     ecp |-> Get(st.params["rem"].v, "ecp", None),
     rem_params |-> st.params["rem"],
     optional_params |-> IF DOMAIN st.params \ {"comment", "rem"} = {} THEN None
                         ELSE PyDict([k \in DOMAIN st.params \ {"comment", "rem"} |->
                                         st.params[k]])]

FromSections(st) ==
    IF st.err # "" THEN Raise(st.err, None)
    ELSE IF "rem" \notin DOMAIN st.params THEN Raise("KeyError", None)
    ELSE IF "jobtype" \notin DOMAIN st.params["rem"].v THEN Raise("KeyError", None)
    ELSE IF "basis" \notin DOMAIN st.params["rem"].v THEN Raise("KeyError", None)
    ELSE QcTaskInit(FromStringArgs(st))
\* QcTask.from_string(contents): [err, task]
from_string(contents) == FromSections(ScanSections(contents))

(***************************************************************************)
(* QcInput: a list of jobs written as one text                             *)
(***************************************************************************)
\* isinstance(j, QcTask)
IsQcTask(j) == "params" \in DOMAIN j

\* QcInput(jobs): [err, has_jobs, jobs]; self.jobs is assigned in the loop
\* over the jobs, so a QcInput of no jobs has no jobs attribute.
QcInputInit(arg) ==
    LET js == IF IsQcTask(arg) THEN <<arg>>
              ELSE IF arg.t = "list" THEN arg.v ELSE <<arg>>
    IN  IF \E i \in 1..Len(js) : ~IsQcTask(js[i])
        THEN [err |-> "ValueError", has_jobs |-> FALSE, jobs |-> << >>]
        ELSE [err |-> "", has_jobs |-> Len(js) > 0, jobs |-> js]

\* The first exception of a sequence of call results, "" when there is none.
FirstErr(rs) ==
    IF \A i \in 1..Len(rs) : rs[i].err = "" THEN ""
    ELSE rs[CHOOSE i \in 1..Len(rs) :
                /\ rs[i].err # ""
                /\ \A j \in 1..(i - 1) : rs[j].err = ""].err

\* "\n@@@\n\n\n".join([str(j) for j in self.jobs]) of the results rs of str(j)
JoinedJobs(rs) ==
    [err |-> FirstErr(rs),
     text |-> IF FirstErr(rs) = ""
              THEN Join([i \in 1..Len(rs) |-> rs[i].text], "\n@@@\n\n\n")
              ELSE ""]
\* str(q): [err, text]
QcInputStr(q) ==
    IF ~q.has_jobs THEN [err |-> "AttributeError", text |-> ""]
    ELSE JoinedJobs([i \in 1..Len(q.jobs) |-> QcTaskStr(q.jobs[i])])

\* QcInput(jobs) of the results rs of QcTask.from_string(cont)
InputOfParsed(rs) ==
    IF FirstErr(rs) # ""
    THEN [err |-> FirstErr(rs), has_jobs |-> FALSE, jobs |-> << >>]
    ELSE QcInputInit(PyList([i \in 1..Len(rs) |-> rs[i].task]))
\* The pieces of contents.split("@@@"), each parsed as a job.
ParsedPieces(qc_contents) ==
    [i \in 1..Len(qc_contents) |-> from_string(qc_contents[i])]
\* QcInput.from_string(contents): [err, has_jobs, jobs]
QcInputFromString(contents) == InputOfParsed(ParsedPieces(SplitOnStr(contents, "@@@")))

\* The QcTask a caller holds before it has one.
NoTask == [mol |-> None, charge |-> None, spin_multiplicity |-> None,
           params |-> EmptyDict]

(***************************************************************************)
(* QcOutput: the regular expressions of _parse_job.  A pattern is a        *)
(* sequence of items [k, s, c]: a literal s, or one char, an optional      *)
(* char, a run of one or more, or a run of zero or more chars of the set   *)
(* c.  No pattern of _parse_job written this way needs backtracking: the   *)
(* char after a run is never of the run's set.                            *)
(***************************************************************************)
Lit(s) == [k |-> "lit", s |-> s, c |-> {}]
One(c) == [k |-> "one", s |-> "", c |-> c]
Maybe(c) == [k |-> "maybe", s |-> "", c |-> c]
Plus(c) == [k |-> "plus", s |-> "", c |-> c]
Star(c) == [k |-> "star", s |-> "", c |-> c]
\* `.`: any one char
Dot == [k |-> "dot", s |-> "", c |-> {}]

WsChars == {" ", "\t", "\r"}
WordChars == UpperChars \cup LowerChars \cup DigitChars \cup {"_"}
\* \-?\d+\.\d+
Decimal == <<Maybe({"-"}), Plus(DigitChars), Lit("."), Plus(DigitChars)>>
\* \-\d+\.\d+
NegDecimal == <<Lit("-"), Plus(DigitChars), Lit("."), Plus(DigitChars)>>
\* \d+\.\d+
PosDecimal == <<Plus(DigitChars), Lit("."), Plus(DigitChars)>>

RECURSIVE RunEnd(_, _, _)
\* The place after the run of chars of c that starts at i.
RunEnd(c, s, i) ==
    IF i > Len(s) \/ CharAt(s, i) \notin c THEN i ELSE RunEnd(c, s, i + 1)
\* The place after item it matched at i, 0 when it does not match there.
ItemEnd(it, s, i) ==
    CASE it.k = "lit" ->
             IF i + Len(it.s) - 1 <= Len(s) /\ SubSeq(s, i, i + Len(it.s) - 1) = it.s
             THEN i + Len(it.s) ELSE 0
      [] it.k = "one" -> IF i <= Len(s) /\ CharAt(s, i) \in it.c THEN i + 1 ELSE 0
      [] it.k = "maybe" -> IF i <= Len(s) /\ CharAt(s, i) \in it.c THEN i + 1 ELSE i
      [] it.k = "plus" -> IF i <= Len(s) /\ CharAt(s, i) \in it.c
                          THEN RunEnd(it.c, s, i + 1) ELSE 0
      [] it.k = "star" -> RunEnd(it.c, s, i)
      [] OTHER -> IF i <= Len(s) THEN i + 1 ELSE 0
RECURSIVE MatchItems(_, _, _, _, _)
MatchNext(items, k, s, acc, j) ==
    IF j = 0 THEN << >> ELSE MatchItems(items, k + 1, s, j, acc)
\* The places where the items from the k-th on start when matched at i, and
\* the place after the last; << >> when they do not match there.
MatchItems(items, k, s, i, acc) ==
    IF k > Len(items) THEN Append(acc, i)
    ELSE MatchNext(items, k, s, Append(acc, i), ItemEnd(items[k], s, i))
\* pattern.match(s)
Match(items, s) == MatchItems(items, 1, s, 1, << >>)
MatchAtLeast(items, s, starts) ==
    IF starts = {} THEN << >> ELSE MatchItems(items, 1, s, Least(starts), << >>)
\* pattern.search(s): the leftmost match
Search(items, s) ==
    MatchAtLeast(items, s, {i \in 1..Len(s) : MatchItems(items, 1, s, i, << >>) # << >>})
\* The text items a..b of match p took.
Group(s, p, a, b) == SubSeq(s, p[a], p[b + 1] - 1)

scf_energy_pattern ==
    <<Lit("Total energy in the final basis set ="), Plus(WsChars)>> \o NegDecimal
CorrNameChars == UpperChars \cup DigitChars \cup {"-", "(", ")"}
\* corr_energy_pattern with and without the optional `[tT]otal\s+`
corr_energy_total_pattern ==
    <<Plus(CorrNameChars), Plus(WsChars), One({"t", "T"}), Lit("otal"), Plus(WsChars),
      One({"e", "E"}), Lit("nergy"), Plus(WsChars), Lit("="), Plus(WsChars)>>
        \o NegDecimal
corr_energy_pattern ==
    <<Plus(CorrNameChars), Plus(WsChars),
      One({"e", "E"}), Lit("nergy"), Plus(WsChars), Lit("="), Plus(WsChars)>>
        \o NegDecimal
coord_pattern ==
    <<Star(WsChars), Plus(DigitChars), Plus(WsChars), One(UpperChars), Star(LowerChars),
      Plus(WsChars)>> \o Decimal \o <<Plus(WsChars)>> \o Decimal
        \o <<Plus(WsChars)>> \o Decimal
num_ele_pattern ==
    <<Lit("There are"), Plus(WsChars), Plus(DigitChars), Plus(WsChars),
      Lit("alpha and"), Plus(WsChars), Plus(DigitChars), Plus(WsChars),
      Lit("beta electrons")>>
total_charge_pattern ==
    <<Lit("Sum of atomic charges ="), Plus(WsChars)>> \o Decimal
scf_iter_pattern ==
    <<Plus(DigitChars), Plus(WsChars)>> \o NegDecimal \o <<Plus(WsChars)>>
        \o PosDecimal \o <<Lit("E"), One({"-", "+"}), Plus(DigitChars)>>
zpe_pattern ==
    <<Lit("Zero point vibrational energy:"), Plus(WsChars)>> \o PosDecimal
        \o <<Plus(WsChars), Lit("kcal/mol")>>
\* The tail of thermal_corr_pattern, from the colon on.
thermal_corr_tail ==
    <<Lit(":"), Plus(WsChars)>> \o PosDecimal
        \o <<Plus(WsChars), Maybe({"k"}), Lit("cal/mol")>>
detailed_charge_pattern ==
    <<Lit("Ground-State "), Plus(WordChars), Lit(" Net Atomic Charges")>>

\* error_defs: the signatures and their labels, in order
error_defs ==
    <<[ep |-> <<Lit("Convergence failure")>>, message |-> "Bad SCF convergence"],
      [ep |-> <<Lit("Coordinates do not transform within specified threshold")>>,
       message |-> "autoz error"],
      [ep |-> <<Lit("MAXIMUM OPTIMIZATION CYCLES REACHED")>>,
       message |-> "Geometry optimization failed"],
      [ep |-> <<Plus(WsChars), One({"n", "N"}), One({"a", "A"}), One({"n", "N"}),
                Plus(WsChars)>>,
       message |-> "NAN values"],
      [ep |-> <<Lit("energy"), Plus(WsChars), Lit("="), Star(WsChars), Plus({"*"})>>,
       message |-> "Numerical disaster"],
      [ep |-> <<Lit("NewFileMan::OpenFile():"), Plus(WsChars), Lit("nopenfiles="),
                Plus(DigitChars), Plus(WsChars), Lit("maxopenfiles="),
                Plus(DigitChars), Plus({"s"}), Lit("errno="), Plus(DigitChars)>>,
       message |-> "Open file error"],
      [ep |-> <<Lit("Application "), Plus(DigitChars), Lit(" exit codes: 1"),
                One({"3", "4"}), Plus(DigitChars)>>,
       message |-> "Exit Code 134"],
      [ep |-> <<Lit("Negative overlap matrix eigenvalue"), Dot,
                Lit(" Tighten integral threshold (REM_THRESH)!")>>,
       message |-> "Negative Eigen"],
      [ep |-> <<Lit("Unable to allocate requested memory in mega_alloc")>>,
       message |-> "Insufficient static memory"],
      [ep |-> <<Lit("Application "), Plus(DigitChars), Lit(" exit signals: Killed")>>,
       message |-> "Killed"]>>

Messages(defs) == [i \in 1..Len(defs) |-> defs[i].message]
\* for ep, message in error_defs: if ep.search(line): errors.append(message)
ErrorLabels(line) ==
    Messages(SelectSeq(error_defs, LAMBDA d : Search(d.ep, line) # << >>))

(***************************************************************************)
(* QcOutput._parse_job: the local variables, and what one line does to     *)
(* them in each branch of the loop.  raised is the exception that ended    *)
(* the call, "" while none has.                                            *)
(***************************************************************************)
\* float(x), for an x it takes
FloatOf(x) == FloatOfStripped(Strip(x))
\* [float(x) for x in tokens]
Floats(tokens) == [i \in 1..Len(tokens) |-> FloatOf(tokens[i])]
AllFloats(tokens) == \A i \in 1..Len(tokens) : IsFloatText(tokens[i])
\* int(f): towards zero
TruncFloat(f) ==
    IF f[2] >= 0 THEN f[1] * Pow10(f[2])
    ELSE IF f[1] < 0 THEN 0 - ((0 - f[1]) \div Pow10(0 - f[2]))
    ELSE f[1] \div Pow10(0 - f[2])
MulFloat(f, g) == NormFloat(f[1] * g[1], f[2] + g[2])
\* The setters of single rem keys: each checks its argument before it writes.
available_algorithms ==
    {"diis", "dm", "diis_dm", "diis_gdm", "gdm", "rca", "rca_diis", "roothaan"}
set_scf_algorithm_and_iterations(task, algorithm, iterations) ==
    IF Lower(algorithm.v) \notin available_algorithms THEN Raise("ValueError", task)
    ELSE Ok(WithRem(WithRem(task, "scf_algorithm", PyStr(Lower(algorithm.v))),
                    "max_scf_cycles", iterations))

available_lebedev_angular_points ==
    {6, 18, 26, 38, 50, 74, 86, 110, 146, 170, 194, 230, 266, 302, 350, 434,
     590, 770, 974, 1202, 1454, 1730, 2030, 2354, 2702, 3074, 3470, 3890,
     4334, 4802, 5294}
\* format spec {:06d} of a number that is not negative
ZeroPadded(n) == Repeat("0", 6 - Len(IntStr(n))) \o IntStr(n)
set_dft_grid(task, radical_points, angular_points, grid_type) ==
    CASE Lower(grid_type.v) = "sg-0" -> Ok(WithRem(task, "xc_grid", PyInt(0)))
      [] Lower(grid_type.v) = "sg-1" -> Ok(WithRem(task, "xc_grid", PyInt(1)))
      [] Lower(grid_type.v) = "lebedev" ->
            IF angular_points.v \notin available_lebedev_angular_points
            THEN Raise("ValueError", task)
            ELSE Ok(WithRem(task, "xc_grid",
                     PyStr(ZeroPadded(radical_points.v) \o ZeroPadded(angular_points.v))))
      [] Lower(grid_type.v) = "gauss-legendre" ->
            Ok(WithRem(task, "xc_grid",
                PyStr("-" \o ZeroPadded(radical_points.v) \o ZeroPadded(angular_points.v))))
      [] OTHER -> Raise("ValueError", task)

\* use_cosmo(dielectric_constant)
use_cosmo(task, dielectric_constant) ==
    Ok(WithRem(WithRem(task, "solvent_method", PyStr("cosmo")),
               "solvent_dielectric", dielectric_constant))

default_pcm_params ==
    [k \in {"Theory", "vdwScale", "Radii"} |->
        CASE k = "Theory" -> PyStr("SSVPE")
          [] k = "vdwScale" -> PyFloat(11, 0 - 1)
          [] OTHER -> PyStr("UFF")]
default_solvent_params == [k \in {"Dielectric"} |-> PyFloat(783553, 0 - 4)]
\* v.lower() if isinstance(v, str) else v
LowerIfStr(val) == IF IsStr(val) THEN PyStr(Lower(val.v)) ELSE val
\* {k.lower(): v.lower() if isinstance(v, str) else v} over the items of d,
\* for a d that has no two keys of one lower-case form
LoweredItems(d) ==
    [k \in {Lower(x) : x \in DOMAIN d} |->
        LowerIfStr(d[CHOOSE x \in DOMAIN d : Lower(x) = k])]
\* The entries of given, and those of defaults under the other keys.
FilledFrom(given, defaults) ==
    [k \in DOMAIN given \cup DOMAIN defaults |->
        IF k \in DOMAIN given THEN given[k] ELSE defaults[k]]
\* The end of use_pcm: a force field for the radii puts bondi radii in $pcm.
RadiiForced(task, radii_force_field) ==
    IF ~Truthy(radii_force_field) THEN task
    ELSE WithRem(WithSection(task, "pcm",
                             PyDict(Put(task.params["pcm"].v, "radii", PyStr("bondi")))),
                 "force_fied", PyStr(Lower(radii_force_field.v)))
\* use_pcm(pcm_params, solvent_params, radii_force_field)
use_pcm(task, pcm_params, solvent_params, radii_force_field) ==
    Ok(RadiiForced(
           WithRem(
               WithSection(
                   WithSection(task, "pcm",
                       PyDict(FilledFrom(IF Truthy(pcm_params)
                                         THEN LoweredItems(pcm_params.v) ELSE << >>,
                                         LoweredItems(default_pcm_params)))),
                   "pcm_solvent",
                   PyDict(LoweredItems(IF Truthy(solvent_params) THEN solvent_params.v
                                       ELSE default_solvent_params))),
               "solvent_method", PyStr("pcm")),
           radii_force_field))

availabel_guesses == {"core", "sad", "gwh", "read", "fragmo"}
set_scf_initial_guess(task, guess) ==
    IF Lower(guess.v) \notin availabel_guesses THEN Raise("ValueError", task)
    ELSE Ok(WithRem(task, "scf_guess", PyStr(Lower(guess.v))))

coords_map ==
    [k \in {"cartesian", "internal", "internal-switch", "z-matrix", "z-matrix-switch"} |->
        CASE k = "cartesian" -> 0
          [] k = "internal" -> 1
          [] k = "internal-switch" -> 0 - 1
          [] k = "z-matrix" -> 2
          [] OTHER -> 0 - 2]
set_geom_opt_coords_type(task, coords_type) ==
    IF Lower(coords_type.v) \notin DOMAIN coords_map THEN Raise("ValueError", task)
    ELSE Ok(WithRem(task, "geom_opt_coords", PyInt(coords_map[Lower(coords_type.v)])))

\* x < 1.0/(base - 1), for a float x = <<m, e>> with e <= 0
BelowScale(x, base) == (base - 1) * x[1] < Pow10(0 - x[2])
\* int(x * base)
ScaledBy(x, base) == PyInt(TruncFloat(MulFloat(x, <<base, 0>>)))
scale_geom_opt_threshold(task, gradient, displacement, energy) ==
    IF \/ BelowScale(gradient.v, 300)
       \/ BelowScale(displacement.v, 1200)
       \/ BelowScale(energy.v, 100)
    THEN Raise("ValueError", task)
    ELSE Ok(WithRem(WithRem(WithRem(task,
                "geom_opt_tol_gradient", ScaledBy(gradient.v, 300)),
                "geom_opt_tol_displacement", ScaledBy(displacement.v, 1200)),
                "geom_opt_tol_energy", ScaledBy(energy.v, 100)))

\* list[1:]
Rest(seq) == IF Len(seq) = 0 THEN << >> ELSE Tail(seq)

\* Energy(x, "Ha").to("eV"): the conversion is pymatgen.core.units', the
\* model keeps the Hartree number the eV value is made from.
EnergyInEv(ha) == [ev_of_ha |-> ha]
kcal_per_mol_2_eV == <<43363, 0 - 6>>

JobLocals ==
    [energies |-> << >>, scf_iters |-> << >>, coords |-> << >>, species |-> << >>,
     molecules |-> << >>, gradients |-> << >>, freqs |-> << >>, vib_freqs |-> << >>,
     vib_modes |-> << >>, grad_comp |-> None, errors |-> << >>,
     parse_input |-> FALSE, parse_coords |-> FALSE, parse_scf_iter |-> FALSE,
     parse_gradient |-> FALSE, parse_freq |-> FALSE, parse_modes |-> FALSE,
     qctask_lines |-> << >>, qctask |-> NoTask, jobtype |-> None, charge |-> None,
     spin_multiplicity |-> None, thermal_corr |-> EmptyDict,
     properly_terminated |-> FALSE, pop_method |-> None, parse_charge |-> FALSE,
     charges |-> EmptyDict, scf_successful |-> FALSE, opt_successful |-> FALSE,
     raised |-> ""]

Raised(st, e) == [st EXCEPT !.raised = e]
Dashes(n) == Repeat("-", n)

\* --- if parse_input ---
InputClosed(st, r) ==
    IF r.err # "" THEN Raised(st, r.err)
    ELSE [st EXCEPT !.qctask = r.task,
                    !.jobtype = Rem(r.task)["jobtype"],
                    !.parse_input = FALSE]
InputLine(st, line) ==
    IF Contains(line, Dashes(50))
    THEN IF Len(st.qctask_lines) = 0 THEN st
         ELSE InputClosed(st, from_string(Join(st.qctask_lines, "\n")))
    ELSE [st EXCEPT !.qctask_lines = Append(@, line)]

\* --- elif parse_coords ---
\* Molecule(species, coords): charge 0, the lowest spin multiplicity of the
\* electron count; an unknown element symbol is refused.
MoleculeOfCoords(species, coords) ==
    With([i \in 1..Len(species) |-> [species |-> species[i], xyz |-> coords[i]]],
         LAMBDA sites : Molecule(sites, 0, IF SumZ(sites) % 2 = 0 THEN 1 ELSE 2))
CoordsClosed(st) ==
    IF \E i \in 1..Len(st.species) : st.species[i] \notin DOMAIN AtomicNumber
    THEN Raised(st, "ValueError")
    ELSE [st EXCEPT !.molecules = Append(@, MoleculeOfCoords(st.species, st.coords)),
                    !.coords = << >>,
                    !.species = << >>,
                    !.parse_coords = FALSE]
CoordsMatched(st, line, m) ==
    IF m = << >> THEN Raised(st, "AttributeError")
    ELSE [st EXCEPT !.coords = Append(@, <<ToFloat(Group(line, m, 7, 10)),
                                           ToFloat(Group(line, m, 12, 15)),
                                           ToFloat(Group(line, m, 17, 20))>>),
                    !.species = Append(@, Group(line, m, 4, 5))]
CoordsLine(st, line) ==
    IF Contains(line, Dashes(50))
    THEN IF Len(st.coords) = 0 THEN st ELSE CoordsClosed(st)
    ELSE IF Contains(line, "Atom") THEN st
    ELSE CoordsMatched(st, line, Match(coord_pattern, line))

\* --- elif parse_scf_iter ---
ScfIterMatched(st, line, m) ==
    IF m = << >> THEN st
    ELSE [st EXCEPT !.scf_iters[Len(st.scf_iters)] =
                        Append(@, <<ToFloat(Group(line, m, 3, 6)),
                                    ToFloat(Group(line, m, 8, 13))>>)]
ScfLine(st, line) ==
    IF Contains(line, "SCF time:  CPU") THEN [st EXCEPT !.parse_scf_iter = FALSE]
    ELSE ScfIterMatched(
             [st EXCEPT !.scf_successful =
                            @ \/ Contains(line, "Convergence criterion met")],
             line, Search(scf_iter_pattern, line))

\* --- elif parse_gradient ---
\* zip(*grad_comp) of three rows
Zip3(rows) ==
    [i \in 1..Least({Len(rows[1]), Len(rows[2]), Len(rows[3])}) |->
        <<rows[1][i], rows[2][i], rows[3][i]>>]
\* if grad_comp: extend the gradients by its columns, or raise
GradCompFlushed(st) ==
    IF ~(st.grad_comp.t = "list" /\ Len(st.grad_comp.v) > 0) THEN st
    ELSE IF Len(st.grad_comp.v) = 3
    THEN [st EXCEPT !.gradients[Len(st.gradients)] =
                        Put(@, "gradients", @["gradients"] \o Zip3(st.grad_comp.v))]
    ELSE Raised(st, "Exception")
\* gradients[-1][key] = float(line.split("=")[1])
GradientNumber(st, key, parts) ==
    IF Len(parts) < 2 THEN Raised(st, "IndexError")
    ELSE IF ~IsFloatText(parts[2]) THEN Raised(st, "ValueError")
    ELSE [st EXCEPT !.gradients[Len(st.gradients)] = Put(@, key, FloatOf(parts[2]))]
Unraised(st, F(_)) == IF st.raised # "" THEN st ELSE F(st)
RECURSIVE RepairFrom(_, _)
\* The cramped-column repair: i is the 0-based index the source steps by 12.
RepairFrom(line, i) ==
    IF i >= Len(line) THEN line
    ELSE RepairFrom(
             IF /\ ~IsSpace(CharAt(line, i + 1))
                /\ i + 7 <= Len(line)
                /\ ~Contains(SubSeq(line, i + 2, i + 7), " ")
             THEN SubSeq(line, 1, i - 1) \o " " \o SubSeq(line, i + 1, Len(line))
             ELSE line,
             i + 12)
GradientRow(st, tokens) ==
    IF st.grad_comp.t # "list" THEN Raised(st, "AttributeError")
    ELSE IF ~AllFloats(tokens) THEN Raised(st, "ValueError")
    ELSE [st EXCEPT !.grad_comp = PyList(Append(st.grad_comp.v, Floats(tokens)))]
GradientLine(st, line) ==
    IF Contains(line, "Max gradient component")
    THEN Unraised(GradientNumber(st, "max_gradient", SplitOn(line, "=")), GradCompFlushed)
    ELSE IF Contains(line, "RMS gradient")
    THEN Unraised(GradientNumber(st, "rms_gradient", SplitOn(line, "=")),
                  LAMBDA s : [s EXCEPT !.parse_gradient = FALSE, !.grad_comp = None])
    ELSE IF ~Contains(line, ".")
    THEN Unraised(GradCompFlushed(st), LAMBDA s : [s EXCEPT !.grad_comp = PyList(<< >>)])
    ELSE GradientRow(st, Rest(Split(Strip(RepairFrom(line, 5)))))

\* --- elif parse_freq ---
\* zip(*([iter(dis_flat)] * 3))
Triples(dis_flat) ==
    [i \in 1..(Len(dis_flat) \div 3) |->
        <<dis_flat[3 * i - 2], dis_flat[3 * i - 1], dis_flat[3 * i]>>]
\* zip(*vib_modes): one tuple per column, of that column's entry in every row
Columns(rows) ==
    IF Len(rows) = 0 THEN << >>
    ELSE [j \in 1..Least({Len(rows[i]) : i \in 1..Len(rows)}) |->
             [i \in 1..Len(rows) |-> rows[i][j]]]
\* zip(vib_freqs, modes) as frequency records
FreqRecords(vib_freqs, modes) ==
    [i \in 1..Least({Len(vib_freqs), Len(modes)}) |->
        [frequency |-> vib_freqs[i], vib_mode |-> modes[i]]]
ModesClosed(st) ==
    [st EXCEPT !.parse_modes = FALSE,
               !.freqs = @ \o FreqRecords(st.vib_freqs, Columns(st.vib_modes))]
\* The part of the branch after `if parse_modes:`.
FreqMarkers(st, line) ==
    IF \/ Contains(line, "STANDARD THERMODYNAMIC QUANTITIES")
       \/ Contains(line, "Imaginary Frequencies")
    THEN [st EXCEPT !.parse_freq = FALSE]
    ELSE IF Contains(line, "Frequency:")
    THEN IF AllFloats(Rest(Split(line)))
         THEN [st EXCEPT !.vib_freqs = Floats(Rest(Split(line)))]
         ELSE Raised(st, "ValueError")
    ELSE IF Contains(line, "X      Y      Z") THEN [st EXCEPT !.parse_modes = TRUE]
    ELSE st
ModeRow(st, line, tokens) ==
    IF ~AllFloats(tokens) THEN Raised(st, "ValueError")
    ELSE FreqMarkers([st EXCEPT !.vib_modes = Append(@, Triples(Floats(tokens)))], line)
FreqLine(st, line) ==
    IF st.parse_modes
    THEN IF Contains(line, "TransDip") THEN ModesClosed(st)
         ELSE ModeRow(st, line, Rest(Split(line)))
    ELSE FreqMarkers(st, line)

\* --- elif parse_charge ---
ChargeRow(st, tokens) ==
    IF Len(tokens) < 3 THEN Raised(st, "IndexError")
    ELSE IF ~IsFloatText(tokens[3]) THEN Raised(st, "ValueError")
    ELSE [st EXCEPT !.charges[st.pop_method.v] = Append(@, FloatOf(tokens[3]))]
ChargeLine(st, line) ==
    IF Contains(line, Dashes(20))
    THEN IF Len(st.charges[st.pop_method.v]) = 0 THEN st
         ELSE [st EXCEPT !.pop_method = None, !.parse_charge = FALSE]
    ELSE IF Len(Strip(line)) = 0 \/ Contains(line, "Atom") THEN st
    ELSE ChargeRow(st, Split(line))

\* --- else ---
SpinFound(st, line, m) ==
    IF m = << >> THEN st
    ELSE [st EXCEPT !.spin_multiplicity =
                        PyInt(ParseNat(Group(line, m, 3, 3))
                                  - ParseNat(Group(line, m, 7, 7)) + 1)]
IdleSpin(st, line) ==
    IF ~IsNone(st.spin_multiplicity) THEN st
    ELSE SpinFound(st, line, Search(num_ele_pattern, line))
ChargeFound(st, line, m) ==
    IF m = << >> THEN st
    ELSE [st EXCEPT !.charge = PyInt(TruncFloat(ToFloat(Group(line, m, 3, 6))))]
IdleCharge(st, line) ==
    IF ~IsNone(st.charge) THEN st
    ELSE ChargeFound(st, line, Search(total_charge_pattern, line))
ZpeFound(st, line, m) ==
    IF m = << >> THEN st
    ELSE [st EXCEPT !.thermal_corr = Put(@, "ZPE", ToFloat(Group(line, m, 3, 5)))]
\* thermal_corr_pattern.search(line): the name starts at the first non-blank
\* char and runs to the last colon the tail matches at; colons is the places
\* where it does.
ThermalFound(st, line, first, colons) ==
    IF {p \in colons : p - 2 >= first /\ ~IsSpace(CharAt(line, p - 1))} = {} THEN st
    ELSE With(CHOOSE p \in colons :
                  /\ p - 2 >= first /\ ~IsSpace(CharAt(line, p - 1))
                  /\ \A q \in colons :
                        (q - 2 >= first /\ ~IsSpace(CharAt(line, q - 1))) => q <= p,
              LAMBDA p : [st EXCEPT !.thermal_corr =
                              Put(@, SubSeq(line, first, p - 1),
                                  ToFloat(Group(line, MatchItems(thermal_corr_tail, 1,
                                                                 line, p, << >>),
                                                3, 5)))])
IdleThermal(st, line) ==
    IF ~(IsStr(st.jobtype) /\ st.jobtype.v = "freq") THEN st
    ELSE ThermalFound(ZpeFound(st, line, Search(zpe_pattern, line)), line,
                      SkipSpace(line, 1),
                      {p \in 1..Len(line) :
                          MatchItems(thermal_corr_tail, 1, line, p, << >>) # << >>})
\* The corr_energy_pattern match: the leftmost of the two forms.
CorrMatch(line, a, b) ==
    IF a = << >> THEN [m |-> b, energy |-> 11]
    ELSE IF b = << >> \/ a[1] <= b[1] THEN [m |-> a, energy |-> 14]
    ELSE [m |-> b, energy |-> 11]
\* name and energy of the line: [name, energy], name "" for None
NamedEnergy(line, scf, corr) ==
    IF corr.m # << >> /\ Group(line, corr.m, 1, 1) # "SCF"
    THEN [name |-> Group(line, corr.m, 1, 1),
          energy |-> ToFloat(Group(line, corr.m, corr.energy - 3, corr.energy))]
    ELSE IF scf # << >>
    THEN [name |-> "SCF", energy |-> ToFloat(Group(line, scf, 3, 6))]
    ELSE [name |-> "", energy |-> <<0, 0>>]
EnergyNamed(st, ne) ==
    IF ne.name # "" /\ ne.energy[1] # 0
    THEN [st EXCEPT !.energies = Append(@, <<ne.name, EnergyInEv(ne.energy)>>)]
    ELSE st
IdleEnergy(st, line) ==
    EnergyNamed(st, NamedEnergy(line, Search(scf_energy_pattern, line),
                                CorrMatch(line, Search(corr_energy_total_pattern, line),
                                          Search(corr_energy_pattern, line))))
PopulationFound(st, line, m) ==
    IF m = << >> THEN st
    ELSE [st EXCEPT !.pop_method = PyStr(Lower(Group(line, m, 2, 2))),
                    !.parse_charge = TRUE,
                    !.charges = Put(@, Lower(Group(line, m, 2, 2)), << >>)]
IdlePopulation(st, line) == PopulationFound(st, line, Search(detailed_charge_pattern, line))
\* An else-branch that leaves scf_successful alone at an SCF header.
IdleMarkers_NoReset(st, line) ==
    IF Contains(line, "User input:") THEN [st EXCEPT !.parse_input = TRUE]
    ELSE IF Contains(line, "Standard Nuclear Orientation (Angstroms)")
    THEN [st EXCEPT !.parse_coords = TRUE]
    ELSE IF \/ Contains(line, "Cycle       Energy         DIIS Error")
            \/ Contains(line, "Cycle       Energy        RMS Gradient")
    THEN [st EXCEPT !.parse_scf_iter = TRUE,
                    !.scf_iters = Append(@, << >>)]
    ELSE IF Contains(line, "Gradient of SCF Energy")
    THEN [st EXCEPT !.parse_gradient = TRUE,
                    !.gradients = Append(@, [k \in {"gradients"} |-> << >>])]
    ELSE IF Contains(line, "VIBRATIONAL ANALYSIS") THEN [st EXCEPT !.parse_freq = TRUE]
    ELSE IF Contains(line, "Thank you very much for using Q-Chem.")
    THEN [st EXCEPT !.properly_terminated = TRUE]
    ELSE IF Contains(line, "OPTIMIZATION CONVERGED")
    THEN [st EXCEPT !.opt_successful = TRUE]
    ELSE st
IdleMarkers(st, line) ==
    IF Contains(line, "User input:") THEN [st EXCEPT !.parse_input = TRUE]
    ELSE IF Contains(line, "Standard Nuclear Orientation (Angstroms)")
    THEN [st EXCEPT !.parse_coords = TRUE]
    ELSE IF \/ Contains(line, "Cycle       Energy         DIIS Error")
            \/ Contains(line, "Cycle       Energy        RMS Gradient")
    THEN [st EXCEPT !.parse_scf_iter = TRUE,
                    !.scf_iters = Append(@, << >>),
                    !.scf_successful = FALSE]
    ELSE IF Contains(line, "Gradient of SCF Energy")
    THEN [st EXCEPT !.parse_gradient = TRUE,
                    !.gradients = Append(@, [k \in {"gradients"} |-> << >>])]
    ELSE IF Contains(line, "VIBRATIONAL ANALYSIS") THEN [st EXCEPT !.parse_freq = TRUE]
    ELSE IF Contains(line, "Thank you very much for using Q-Chem.")
    THEN [st EXCEPT !.properly_terminated = TRUE]
    ELSE IF Contains(line, "OPTIMIZATION CONVERGED")
    THEN [st EXCEPT !.opt_successful = TRUE]
    ELSE st
IdleLine(st, line) ==
    IdleMarkers(
        IdlePopulation(
            IdleEnergy(IdleThermal(IdleCharge(IdleSpin(st, line), line), line), line),
            line),
        line)

\* The branch of the loop body the flags select.
LineDispatched(st, line) ==
    IF st.parse_input THEN InputLine(st, line)
    ELSE IF st.parse_coords THEN CoordsLine(st, line)
    ELSE IF st.parse_scf_iter THEN ScfLine(st, line)
    ELSE IF st.parse_gradient THEN GradientLine(st, line)
    ELSE IF st.parse_freq THEN FreqLine(st, line)
    ELSE IF st.parse_charge THEN ChargeLine(st, line)
    ELSE IdleLine(st, line)
\* A loop body that looks for the error signatures only between sections.
ParseJobLine_IdleScan(st, line) ==
    LineDispatched(
        IF st.parse_input \/ st.parse_coords \/ st.parse_scf_iter \/ st.parse_gradient
              \/ st.parse_freq \/ st.parse_charge
        THEN st
        ELSE [st EXCEPT !.errors = @ \o ErrorLabels(line)],
        line)
\* One pass of `for line in output.split("\n")`.
ParseJobLine(st, line) ==
    LineDispatched([st EXCEPT !.errors = @ \o ErrorLabels(line)], line)

\* --- after the loop ---
Labelled(st, label) == [st EXCEPT !.errors = Append(@, label)]
LabelledOnce(st, label) ==
    IF \E i \in 1..Len(st.errors) : st.errors[i] = label THEN st ELSE Labelled(st, label)
\* A post-pass that reports a missing charge alone.
ChargeSpinStamped_ChargeOnly(st) ==
    IF IsNone(st.charge) THEN Labelled(st, "Molecular charge is not found")
    ELSE [st EXCEPT !.molecules =
                        [i \in 1..Len(st.molecules) |->
                            SetChargeAndSpin(st.molecules[i], st.charge.v,
                                             st.spin_multiplicity.v)]]
ChargeSpinStamped(st) ==
    IF IsNone(st.charge) THEN Labelled(st, "Molecular charge is not found")
    ELSE IF IsNone(st.spin_multiplicity)
    THEN Labelled(st, "Molecular spin multipilicity is not found")
    ELSE [st EXCEPT !.molecules =
                        [i \in 1..Len(st.molecules) |->
                            SetChargeAndSpin(st.molecules[i], st.charge.v,
                                             st.spin_multiplicity.v)]]
ThermalScaled(st) ==
    [st EXCEPT !.thermal_corr =
                   [k \in DOMAIN st.thermal_corr |->
                       MulFloat(st.thermal_corr[k],
                                IF Contains(k, "Entropy")
                                THEN MulFloat(kcal_per_mol_2_eV, <<1, 0 - 3>>)
                                ELSE kcal_per_mol_2_eV)]]
HasInput(st) == DOMAIN st.qctask.params # {}
InputChecked(st) == IF HasInput(st) THEN st ELSE Labelled(st, "No input text")
\* A post-pass that adds the label without looking for a copy.
ScfChecked_Again(st) ==
    IF st.scf_successful THEN st ELSE Labelled(st, "Bad SCF convergence")
ScfChecked(st) ==
    IF st.scf_successful THEN st ELSE LabelledOnce(st, "Bad SCF convergence")
IsJobtype(j, name) == IsStr(j) /\ j.v = name
\* A post-pass that puts the label on any job that has no converged optimization.
OptChecked_AnyJobtype(st) ==
    IF ~st.opt_successful THEN LabelledOnce(st, "Geometry optimization failed") ELSE st
OptChecked(st) ==
    IF IsJobtype(st.jobtype, "opt") /\ ~st.opt_successful
    THEN LabelledOnce(st, "Geometry optimization failed")
    ELSE st
\* _expected_successful_pattern(qctask), for a correlation that is a string
ExpectedSuccessfulPattern(rem) ==
    <<"Convergence criterion met">>
        \o (IF /\ "correlation" \in DOMAIN rem
               /\ \/ Contains(rem["correlation"].v, "ccsd")
                  \/ Contains(rem["correlation"].v, "qcisd")
            THEN <<"CC.*converged">> ELSE << >>)
        \o (IF IsJobtype(rem["jobtype"], "opt") \/ IsJobtype(rem["jobtype"], "ts")
            THEN <<"OPTIMIZATION CONVERGED">> ELSE << >>)
        \o (IF IsJobtype(rem["jobtype"], "freq") THEN <<"VIBRATIONAL ANALYSIS">> ELSE << >>)
        \o (IF IsJobtype(rem["jobtype"], "gradient")
            THEN <<"Gradient of SCF Energy">> ELSE << >>)
\* re.compile(text).search(output), for the texts above
SuccessTextFound(pattern, lines) ==
    \E i \in 1..Len(lines) :
        IF pattern = "CC.*converged"
        THEN \E p \in PlacesOf("CC", lines[i], 1) :
                 PlacesOf("converged", lines[i], p + 2) # {}
        ELSE Contains(lines[i], pattern)
Missing(patterns, lines) ==
    SelectSeq(patterns, LAMBDA p : ~SuccessTextFound(p, lines))
\* A check that runs whatever errors holds, for a job with an echoed input.
SuccessChecked_Always(st, lines) ==
    IF ~HasInput(st) THEN st
    ELSE [st EXCEPT !.errors =
                        @ \o [i \in 1..Len(Missing(ExpectedSuccessfulPattern(Rem(st.qctask)),
                                                   lines)) |->
                                 "Can't find text to indicate success"]]
SuccessChecked(st, lines) ==
    IF Len(st.errors) # 0 THEN st
    ELSE IF "correlation" \in DOMAIN Rem(st.qctask) /\ ~IsStr(Rem(st.qctask)["correlation"])
    THEN Raised(st, "TypeError")
    ELSE [st EXCEPT !.errors =
                        [i \in 1..Len(Missing(ExpectedSuccessfulPattern(Rem(st.qctask)),
                                              lines)) |->
                            "Can't find text to indicate success"]]
\* The locals after the code between the loop and `data = {`.
AfterLoop(st, lines) ==
    SuccessChecked(
        OptChecked(ScfChecked(InputChecked(ThermalScaled(ChargeSpinStamped(st))))),
        lines)
\* The record _parse_job returns.
JobData(st) ==
    [jobtype |-> st.jobtype,
     energies |-> st.energies,
     charges |-> st.charges,
     corrections |-> st.thermal_corr,
     molecules |-> st.molecules,
     errors |-> st.errors,
     has_error |-> Len(st.errors) > 0,
     frequencies |-> st.freqs,
     gradients |-> st.gradients,
     input |-> st.qctask,
     gracefully_terminated |-> st.properly_terminated,
     scf_iteration_energies |-> st.scf_iters,
     solvent_method |-> IF HasInput(st) /\ "solvent_method" \in DOMAIN Rem(st.qctask)
                        THEN Rem(st.qctask)["solvent_method"] ELSE PyStr("NA")]

RECURSIVE ParseJobLoop(_, _, _)
\* The locals when the loop over lines ends or raises, st the locals before line i.
ParseJobLoop(st, lines, i) ==
    IF i > Len(lines) \/ st.raised # "" THEN st
    ELSE ParseJobLoop(ParseJobLine(st, lines[i]), lines, i + 1)
JobResult(st) ==
    [err |-> st.raised, data |-> IF st.raised = "" THEN JobData(st) ELSE None]
JobLooped(st, lines) ==
    IF st.raised # "" THEN JobResult(st) ELSE JobResult(AfterLoop(st, lines))
\* cls._parse_job(output), lines being output.split("\n"): [err, data]
_parse_job(lines) == JobLooped(ParseJobLoop(JobLocals, lines, 1), lines)

(***************************************************************************)
(* QcOutput.__init__.  The text of the file is held as its lines.          *)
(***************************************************************************)
NonSpaceChars == (CharsOf(ASCII) \cup {":", "(", ")", "*", "/", ",", "!", "'"}) \ WsChars
\* "Running Job \d+ of \d+ \S+", which the split wants after "\n\n"
job_header_pattern ==
    <<Lit("Running Job "), Plus(DigitChars), Lit(" of "), Plus(DigitChars), Lit(" "),
      Plus(NonSpaceChars)>>
\* The lines the pattern matches at: after an empty line that ends a line.
JobHeaders(lines) ==
    {j \in 3..Len(lines) : lines[j - 1] = "" /\ Match(job_header_pattern, lines[j]) # << >>}
\* What is left of header line h after the match.
AfterHeader(line, m) == SubSeq(line, m[Len(m)], Len(line))
\* The chunk that starts with first and goes on from line start to the line
\* before the empty line of the next header nh (0: to the end).
ChunkUpTo(lines, first, start, nh) ==
    <<first>> \o SubSeq(lines, start, IF nh = 0 THEN Len(lines) ELSE nh - 2)
RECURSIVE ChunksFrom(_, _, _)
\* The chunks from the one header line h starts, H the header lines.
ChunksFrom(lines, H, h) ==
    <<ChunkUpTo(lines, AfterHeader(lines[h], Match(job_header_pattern, lines[h])), h + 1,
                Least({k \in H : k > h}))>>
        \o (IF {k \in H : k > h} = {} THEN << >>
            ELSE ChunksFrom(lines, H, Least({k \in H : k > h})))
\* re.split("\n\nRunning Job \d+ of \d+ \S+", data), each chunk as its lines
JobChunks(lines, H) ==
    IF Len(lines) = 0 THEN <<<<"">>>>
    ELSE <<ChunkUpTo(lines, lines[1], 2, Least(H))>>
             \o (IF H = {} THEN << >> ELSE ChunksFrom(lines, H, Least(H)))
\* map(self._parse_job, chunks): [err, data], err the first exception
MappedJobs(rs) ==
    IF \E i \in 1..Len(rs) : rs[i].err # ""
    THEN [err |-> rs[Least({i \in 1..Len(rs) : rs[i].err # ""})].err, data |-> << >>]
    ELSE [err |-> "", data |-> [i \in 1..Len(rs) |-> rs[i].data]]
ParsedChunks(chunks) == MappedJobs([i \in 1..Len(chunks) |-> _parse_job(chunks[i])])
\* QcOutput(filename) for a file with these lines
QcOutputInit(lines) == ParsedChunks(JobChunks(lines, JobHeaders(lines)))

(***************************************************************************)
(* ETLRunner (pymatgen/etl/base.py).  A configuration is a dict of         *)
(* sections; a section's contents are dicts of Python values.              *)
(***************************************************************************)
NO_VAL == PyStr("___none___")
IO_FILE == 0
IO_MONGO == 1
STDIN == "STDIN"
STDOUT == "STDOUT"
\* CONF: the keys of the sections, with their defaults
CONF ==
    [sources |-> [file |-> NO_VAL, collection |-> NO_VAL, module |-> None,
                  class |-> PyStr("ETL"), param |-> PyDict(EmptyDict)],
     target |-> [file |-> NO_VAL, host |-> PyStr("localhost"), port |-> PyInt(27017),
                 user |-> PyStr(""), password |-> PyStr(""), db |-> NO_VAL,
                 collection |-> NO_VAL]]
\* v[key] = data.get(key, default) for every key of the section
ValuesOf(defaults, data) ==
    [key \in DOMAIN defaults |-> IF key \in DOMAIN data THEN data[key] ELSE defaults[key]]
\* ETLRunner._get_values: [err, v]
_get_values(section, data) ==
    IF \E key \in DOMAIN CONF[section] : IsNone(ValuesOf(CONF[section], data)[key])
    THEN [err |-> "ValueError", v |-> EmptyDict]
    ELSE [err |-> "", v |-> ValuesOf(CONF[section], data)]
\* The target section of __init__: [err, io_type, values]
TargetSection(r) ==
    IF r.err # "" THEN [err |-> r.err, io_type |-> IO_FILE, values |-> r.v]
    ELSE IF r.v["file"] = NO_VAL
    THEN IF r.v["collection"] = NO_VAL \/ r.v["collection"] = NO_VAL
         THEN [err |-> "ValueError", io_type |-> IO_MONGO, values |-> r.v]
         ELSE [err |-> "", io_type |-> IO_MONGO, values |-> r.v]
    ELSE [err |-> "", io_type |-> IO_FILE, values |-> r.v]
\* One entry of the sources section: [err, io_type, values]
SourceEntry(r) ==
    IF r.err # "" THEN [err |-> r.err, io_type |-> IO_FILE, values |-> r.v]
    ELSE IF r.v["file"] = NO_VAL
    THEN IF r.v["collection"] = NO_VAL
         THEN [err |-> "ValueError", io_type |-> IO_MONGO, values |-> r.v]
         ELSE [err |-> "", io_type |-> IO_MONGO, values |-> r.v]
    ELSE [err |-> "", io_type |-> IO_FILE, values |-> r.v]
SourcesSection(contents) ==
    [i \in 1..Len(contents) |-> SourceEntry(_get_values("sources", contents[i]))]
\* The runner the sections make, or the ValueError of the first that fails.
RunnerOf(t, ss) ==
    IF t.err # "" \/ \E i \in 1..Len(ss) : ss[i].err # ""
    THEN [err |-> "ValueError", target |-> EmptyDict, target_io_type |-> IO_FILE,
          sources |-> << >>, source_io_types |-> << >>]
    ELSE [err |-> "", target |-> t.values, target_io_type |-> t.io_type,
          sources |-> [i \in 1..Len(ss) |-> ss[i].values],
          source_io_types |-> [i \in 1..Len(ss) |-> ss[i].io_type]]
\* ETLRunner.__init__(conf), conf a dict.  Every failure of either section is
\* a ValueError, so the order in which CONF yields the sections does not show.
ETLRunnerInit(conf) ==
    IF ~({"sources", "target"} \subseteq DOMAIN conf)
    THEN RunnerOf([err |-> "ValueError"], << >>)
    ELSE RunnerOf(TargetSection(_get_values("target", conf["target"])),
                  SourcesSection(conf["sources"]))

\* The world a run meets: the files that open, the modules that import, the
\* classes they have and what those do.
OpenableFiles == {"in.json", "out.json"}
ImportableModules == {"etl_mod"}
\* What etl_mod's classes do: the exception of the constructor and of
\* extract_transform_load, "" for none.
EtlClasses ==
    [ETL |-> [init |-> "", etl |-> ""],
     BadInit |-> [init |-> "TypeError", etl |-> ""],
     Failing |-> [init |-> "", etl |-> "KeyError"],
     FailingEtl |-> [init |-> "", etl |-> "ETLError"]]
MongoStates == {"up", "down", "absent"}

\* ETLRunner._open_etl: the exception it ends with, "" when it returns.  The
\* handler of IOError names base_exc, which is no variable.
_open_etl(fname) ==
    IF fname \in {STDIN, STDOUT} \/ fname \in OpenableFiles THEN "" ELSE "NameError"
\* ETLRunner._connect, mongo the state of the server and of the pymongo import
_connect(mongo) ==
    CASE mongo = "up" -> ""
      [] mongo = "down" -> "ETLError"
      [] OTHER -> "AttributeError"
\* A CollectionOutputStream: the batches its collection was handed, and its
\* attributes; _batched is set by set_batch_size alone.
NewStream(safe) ==
    [_coll |-> << >>, _safe |-> safe, _batch_data |-> << >>, _batched |-> None]
\* CollectionOutputStream.flush: [err, stream].  r is bound in the batched
\* case alone.
flush(s) ==
    IF IsNone(s._batched) THEN [err |-> "AttributeError", stream |-> s]
    ELSE IF s._batched.v
    THEN [err |-> "", stream |-> [s EXCEPT !._coll = Append(@, s._batch_data),
                                            !._batch_data = << >>]]
    ELSE [err |-> "UnboundLocalError", stream |-> s]
\* The rest of set_batch_size(n) after pending data is flushed: it reads
\* batch, which is no name of it, where n is meant.
BatchSizeSet(f, n) == IF f.err # "" THEN f ELSE [err |-> "NameError", stream |-> f.stream]
\* CollectionOutputStream.set_batch_size
set_batch_size(s, n) ==
    BatchSizeSet(IF Len(s._batch_data) > 0 THEN flush(s) ELSE [err |-> "", stream |-> s], n)
\* CollectionOutputStream.__init__(coll, safe, batch)
CollectionOutputStreamInit(safe, batch) == set_batch_size(NewStream(safe), batch)
\* The target of run(): [err, dbconn], dbconn whether there is a connection
TargetOpened(runner, mongo) ==
    IF runner.target_io_type = IO_MONGO
    THEN IF _connect(mongo) # "" THEN [err |-> _connect(mongo), dbconn |-> FALSE]
         ELSE [err |-> CollectionOutputStreamInit(FALSE, PyInt(0 - 1)).err, dbconn |-> TRUE]
    ELSE [err |-> _open_etl(runner.target["file"].v), dbconn |-> FALSE]
\* ETLRunner._load_module
_load_module(mod_name) ==
    IF mod_name = "" THEN "IndexError"
    ELSE IF mod_name \in ImportableModules THEN "" ELSE "ImportError"
\* The source stream of the loop body
SourceOpened(s, iot, dbconn) ==
    IF iot = IO_MONGO THEN (IF dbconn THEN "" ELSE "TypeError")
    ELSE _open_etl(s["file"].v)
\* The loop body of run() after the source is open: the exception it ends
\* with, "" when the source was run.
EtlRun(s) ==
    IF _load_module(s["module"].v) = "ImportError" THEN "ETLError"
    ELSE IF _load_module(s["module"].v) # "" THEN _load_module(s["module"].v)
    ELSE IF s["class"].v \notin DOMAIN EtlClasses THEN "AttributeError"
    ELSE IF EtlClasses[s["class"].v].init # "" THEN EtlClasses[s["class"].v].init
    ELSE IF EtlClasses[s["class"].v].etl # "" THEN "ETLError"
    ELSE ""
SourceRun(s, iot, dbconn) ==
    IF SourceOpened(s, iot, dbconn) # "" THEN SourceOpened(s, iot, dbconn) ELSE EtlRun(s)
RECURSIVE RunFrom(_, _, _, _)
\* The loop of run() from source i on, ran the sources run so far: [err, n, ran]
RunFrom(runner, dbconn, i, ran) ==
    IF i > Len(runner.sources) THEN [err |-> "", n |-> Len(ran), ran |-> ran]
    ELSE IF SourceRun(runner.sources[i], runner.source_io_types[i], dbconn) # ""
    THEN [err |-> SourceRun(runner.sources[i], runner.source_io_types[i], dbconn),
          n |-> Len(ran), ran |-> ran]
    ELSE RunFrom(runner, dbconn, i + 1, Append(ran, runner.sources[i]))
RunWith(runner, t) ==
    IF t.err # "" THEN [err |-> t.err, n |-> 0, ran |-> << >>]
    ELSE RunFrom(runner, t.dbconn, 1, << >>)
\* ETLRunner.run(): [err, n, ran]
run(runner, mongo) == RunWith(runner, TargetOpened(runner, mongo))

(***************************************************************************)
(* reverse_readline (pymatgen/util/io_utils.py): the lines of a text file, *)
(* last line first.  A file is its text, every line ended by a newline.    *)
(***************************************************************************)
MaxLines == 4
LineTexts == {"1", "2", "3"}
LinesFiles == UNION {[1..n -> LineTexts] : n \in 0..MaxLines}
\* The text of the file that holds the lines
FileText(lines) == Join([i \in 1..Len(lines) |-> lines[i] \o "\n"], "")
\* The lines of a text: the pieces its newlines end
LinesOfFile(txt) ==
    IF txt = "" THEN << >>
    ELSE IF SubSeq(txt, Len(txt), Len(txt)) = "\n"
    THEN SplitOn(SubSeq(txt, 1, Len(txt) - 1), "\n")
    ELSE SplitOn(txt, "\n")
RECURSIVE Reversed(_)
Reversed(seq) ==
    IF Len(seq) = 0 THEN << >> ELSE Append(Reversed(Tail(seq)), Head(seq))
\* The file read from its first line on.
reverse_readline_Forward(txt) == LinesOfFile(txt)
\* The items reverse_readline(f) yields, in the order it yields them
reverse_readline(txt) == Reversed(LinesOfFile(txt))

(***************************************************************************)
(* The inputs the model draws from                                         *)
(***************************************************************************)
\* The largest |charge| and the largest spin multiplicity a caller passes.
MaxCharge == 1
MaxSpin == 3
\* How many setter calls follow a construction.
MaxSetterCalls == 1
\* How many section chunks an input text is made of.
MaxChunks == 3

Site(el, z) == [species |-> el, xyz |-> <<<<0, 0>>, <<0, 0>>, NormFloat(z, -3)>>]
\* carbon monoxide (14 electrons), a hydrogen atom (1), hydroxide (charge -1)
MolCO == Molecule(<<Site("C", 0), Site("O", 1128)>>, 0, 1)
MolH == Molecule(<<Site("H", 0)>>, 0, 2)
MolOH == Molecule(<<Site("O", 0), Site("H", 970)>>, -1, 1)

Labels(keys, label) == PyDict([k \in keys |-> PyStr(label)])

DefaultArgs ==
    [molecule |-> None, charge |-> None, spin_multiplicity |-> None,
     jobtype |-> PyStr("SP"), title |-> None, exchange |-> PyStr("HF"),
     correlation |-> None, basis_set |-> PyStr("6-31+G*"),
     aux_basis_set |-> None, ecp |-> None, rem_params |-> None,
     optional_params |-> None]

Charges == {None} \cup {PyInt(c) : c \in (0 - MaxCharge)..MaxCharge}
Spins == {None} \cup {PyInt(m) : m \in 0..MaxSpin}
Molecules == {None, PyStr("read"), PyStr("Read"), MolCO, MolH, MolOH}

Jobtypes == {PyStr("SP"), PyStr("opt"), PyStr("Optimization"), PyStr("frequency"),
             PyStr("bogus")}
Exchanges == {PyStr("HF"), PyStr("B3LYP"), PyStr("XYG3"), PyStr("nonsense")}
Correlations == {None, PyStr("RI-MP2")}

RemDict(k, val) == PyDict([x \in {k} |-> val])
RemParams ==
    {None,
     RemDict("JOB_TYPE", PyStr("Frequency")),
     RemDict("jobtype", PyStr("bogus")),
     RemDict("exchange", PyStr("nonsense")),
     RemDict("SCF_Max_Cycles", PyInt(100)),
     RemDict("thresh", PyFloat(125, -1)),
     RemDict("thresh", PyFloat(1, -5)),
     RemDict("sym_ignore", PyBool(TRUE)),
     RemDict("scf_guess", PyStr("SAD")),
     RemDict("mem_total", PyStr("2000")),
     RemDict("scf_guess", None)}

BasisSets ==
    {PyStr("6-31+G*"), PyStr("6-311+G**"), PyStr("cc-pVTZ"),
     Labels({" c", "O"}, "6-31G*"), Labels({"C"}, "6-31G*"),
     Labels({"C", "O", "H"}, "6-31G*")}
AuxBasisSets ==
    {None, PyStr("rimp2-cc-pVDZ"),
     Labels({"c ", "o"}, "rimp2-cc-pVDZ"), Labels({"C", "Cd"}, "rimp2-cc-pVDZ")}
Ecps ==
    {None, PyStr("SRLC"), PyDict(EmptyDict),
     Labels({" o"}, "SRLC"), Labels({"O", "CD"}, "SRSC")}

PcmSections ==
    [k \in {"pcm", "pcm_solvent"} |->
        IF k = "pcm"
        THEN PyDict([j \in {"theory", "vdwscale"} |->
                        IF j = "theory" THEN PyStr("ssvpe") ELSE PyFloat(11, -1)])
        ELSE PyDict([j \in {"dielectric"} |-> PyFloat(783553, -4)])]
OptionalParams ==
    {None, PyDict(PcmSections),
     PyDict([k \in {"PCM"} |-> PcmSections["pcm"]]),
     PyDict([k \in {"nbo"} |-> PyDict(EmptyDict)]),
     PyDict([k \in {"basis"} |-> Labels({"H"}, "6-31g")]),
     PyDict([k \in {"bogus"} |-> PyDict(EmptyDict)])}
Titles == {None, PyStr("Test job")}

\* The most jobs a caller puts into one QcInput.
MaxJobs == 2
\* The jobs a caller puts into a QcInput: all are calls the constructor accepts.
JobArgs ==
    {[DefaultArgs EXCEPT !.molecule = MolCO],
     [DefaultArgs EXCEPT !.molecule = MolCO, !.title = PyStr("Test job")],
     [DefaultArgs EXCEPT !.molecule = PyStr("read"), !.jobtype = PyStr("freq"),
                         !.charge = PyInt(1), !.spin_multiplicity = PyInt(2)],
     [DefaultArgs EXCEPT !.molecule = MolH, !.exchange = PyStr("B3LYP"),
                         !.rem_params = RemDict("SCF_Max_Cycles", PyInt(100))],
     [DefaultArgs EXCEPT !.molecule = MolCO, !.jobtype = PyStr("Optimization")],
     [DefaultArgs EXCEPT !.molecule = MolCO, !.title = PyStr("step 1 @@@ step 2")]}

\* The constructor calls: one group of arguments varied at a time.
CtorArgs ==
    {[DefaultArgs EXCEPT !.molecule = m, !.charge = c, !.spin_multiplicity = sm] :
        m \in Molecules, c \in Charges, sm \in Spins}
    \cup {[DefaultArgs EXCEPT !.molecule = m, !.jobtype = j, !.exchange = x,
                              !.correlation = co, !.rem_params = rp] :
        m \in {MolCO}, j \in Jobtypes, x \in Exchanges, co \in Correlations,
        rp \in RemParams}
    \cup {[DefaultArgs EXCEPT !.molecule = m, !.basis_set = b,
                              !.aux_basis_set = ab, !.ecp = e] :
        m \in {PyStr("read"), MolCO}, b \in BasisSets, ab \in AuxBasisSets,
        e \in Ecps}
    \cup {[DefaultArgs EXCEPT !.molecule = m, !.title = ti, !.optional_params = op,
                              !.rem_params = rp] :
        m \in {PyStr("read"), MolCO}, ti \in Titles, op \in OptionalParams,
        rp \in RemParams}
    \cup {[DefaultArgs EXCEPT !.molecule = m, !.exchange = x, !.correlation = co,
                              !.basis_set = b, !.aux_basis_set = ab] :
        m \in {MolCO}, x \in Exchanges, co \in Correlations, b \in BasisSets,
        ab \in AuxBasisSets}

\* The arguments of the setters of rem keys.
Algorithms == {PyStr("DIIS"), PyStr("gdm"), PyStr("newton")}
Iterations == {PyInt(50)}
GridTypes == {PyStr("SG-0"), PyStr("SG-1"), PyStr("Lebedev"), PyStr("Gauss-Legendre"), PyStr("Becke")}
AngularPoints == {PyInt(302), PyInt(300)}
RadicalPoints == {PyInt(128)}
Guesses == {PyStr("SAD"), PyStr("Core"), PyStr("huckel")}
CoordsTypes == {PyStr("internal_switch"), PyStr("internal-switch"), PyStr("Z-Matrix")}
ScaleFactors == {PyFloat(1, -1), PyFloat(5, -1), PyFloat(1, -3), PyFloat(2, 0)}
DisplacementFactors == {PyFloat(1, -1), PyFloat(5, -4)}
EnergyFactors == {PyFloat(1, -1), PyFloat(1, -3)}

SetterBasisSets == {PyStr("STO-3G"), Labels({"C", "o"}, "6-31G*"), Labels({"C"}, "6-31G*")}
SetterAuxBasisSets == {Labels({"C", "O"}, "rimp2-cc-pVDZ"), Labels({"O", "H"}, "rimp2-cc-pVDZ")}
SetterEcps == {Labels({"c"}, "SRLC"), Labels({"C", "Cd"}, "SRSC")}

\* The pieces input texts are made of: whole sections, a section left open,
\* a section header alone, a stray $end and a stray line.
Chunks ==
    {"$comment\n A job\n$end",
     "$molecule\n 0 1\n read\n$end",
     "$molecule\n read\n$end",
     "$molecule\n -1  2\n READ\n$end",
     "$molecule\n C 0.0 0.0 0.0\n O 0.0 0.0 1.128\n$end",
     "$molecule\n 0  1\n C 0.0 0.0 0.0\n O 0.0 0.0 1.128\n$end",
     "$rem\n jobtype = sp\n basis = 6-31g\n$end",
     "$REM\n  JOB_TYPE  freq\n  BASIS  STO-3G\n  exchange b3lyp",
     "$basis\n c\n 6-31G*\n ****\n o\n 6-31G\n ****\n$end",
     "$basis\n h\n 6-31G\n ****\n$end",
     "$nbo\n$end",
     "$foo\n$end",
     "$comment",
     "$end",
     "stray"}

RemKeys == {"jobtype", "JOB_TYPE", "Symmetry_Ignore", "scf_max_cycles", "XC_GRID", "thresh"}
RemSeparators == {" ", " = ", "=", ""}
RemTokens ==
    {"100", "-5", "+7", "1.5", "-0.25E-3", "1e-05", "1.", "True", "False", "true",
     "B3LYP", "optimization", "Frequency", "000120000194", ""}
\* The $rem bodies handed to _parse_rem: one line, or two lines.
RemLines == {"  " \o k \o sp \o tok : k \in RemKeys, sp \in RemSeparators, tok \in RemTokens}
RemSections ==
    {<<l>> : l \in RemLines}
    \cup {<<"  thresh = 12", l>> : l \in RemLines}

\* The lines of a $molecule section after its charge line: Cartesian
\* lines, Z-matrix lines, a variable, a blank line.
MaxCoordLines == 4
CoordLineTexts ==
    {" C 0.0 0.0 0.0", " O 0 0 1.1", " O", " H 1 0.96", " H O oh",
     " H 1 0.96 2 104.5", " H 1", "", " oh = 0.96"}

\* The pieces job chunks are put together from, each a run of log lines.
MaxBlocks == 3
Rule == Dashes(62)
EchoedRem(rem_lines) ==
    <<"User input:", Rule, "$molecule", " read", "$end", "$rem">> \o rem_lines
        \o <<"  basis = 6-31g*", "$end", Rule>>
EchoedInput(jobtype) == EchoedRem(<<"  jobtype = " \o jobtype, "  exchange = b3lyp">>)
AlphaBeta == " There are        8 alpha and        6 beta electrons"
SumOfCharges == "         Sum of atomic charges =     0.000000"
ScfHeader == "  Cycle       Energy         DIIS Error"
ScfTime == " SCF time:  CPU 1.23 s  wall 1.00 s"
LogBlocks ==
    {EchoedInput("opt") \o <<AlphaBeta, SumOfCharges>>,
     EchoedInput("freq") \o <<AlphaBeta, SumOfCharges>>,
     EchoedRem(<<"  jobtype = ts", "  exchange = hf", "  correlation = ccsd">>)
         \o <<AlphaBeta, SumOfCharges>>,
     EchoedInput("sp") \o <<AlphaBeta>>,
     EchoedInput("sp") \o <<SumOfCharges>>,
     <<"User input:", Rule, "$rem", "  jobtype = sp", Rule>>,
     <<" Standard Nuclear Orientation (Angstroms)",
       "    I     Atom         X            Y            Z", Rule,
       "    1      C       0.000000     0.000000     0.000000",
       "    2      O       0.000000     0.000000     1.128000", Rule>>,
     <<" Standard Nuclear Orientation (Angstroms)", Rule,
       "    1      C       0.000000     0.000000", Rule>>,
     <<ScfHeader, "    1    -112.5000      1.50E-03",
       "    2    -112.7000      1.00E-06 Convergence criterion met", ScfTime,
       " Total energy in the final basis set = -112.7000">>,
     <<ScfHeader, "    1    -112.5000      1.50E-03",
       " Convergence failure", ScfTime>>,
     <<ScfHeader, "    1    -112.5000      1.50E-03", ScfTime>>,
     <<" Gradient of SCF Energy", "            1           2",
       "    1   0.0010000  -0.0020000", "    2   0.0000000   0.0000000",
       "    3  -0.0030000   0.0040000", " Max gradient component =       4.000E-03",
       " RMS gradient           =       2.000E-03">>,
     <<" Gradient of SCF Energy", "            1           2",
       "    1-100.0000000   0.0010000", "    2   0.0000000-200.0000000",
       "    3   0.0000001-150.0000000", " Max gradient component =       2.000E+02",
       " RMS gradient           =       1.000E+02">>,
     <<" Gradient of SCF Energy", "            1", "    1   0.0010000",
       " Max gradient component =       1.000E-03">>,
     <<" VIBRATIONAL ANALYSIS", " Frequency:       100.50      200.25",
       "               X      Y      Z        X      Y      Z",
       " C          0.1    0.2    0.3      0.4    0.5    0.6",
       " TransDip   0.000  0.000  0.000", " STANDARD THERMODYNAMIC QUANTITIES AT 298.15 K",
       " Zero point vibrational energy:        3.5 kcal/mol",
       "   Total Entropy:                     50.5  cal/mol.K">>,
     <<" Ground-State Mulliken Net Atomic Charges", "     Atom                 Charge (a.u.)",
       "  ----------------------------------------", "      1 C                     0.25",
       "      2 O                    -0.25", "  ----------------------------------------">>,
     <<" Ground-State Mulliken Net Atomic Charges", "      1 C">>,
     <<" Ground-State Mulliken Net Atomic Charges of the User input:">>,
     <<" CCSD total energy          =   -113.1000",
       " Total energy in the final basis set = -0.0000">>,
     <<" OPTIMIZATION CONVERGED", " CCSD iterations converged",
       " Thank you very much for using Q-Chem.">>,
     <<" MAXIMUM OPTIMIZATION CYCLES REACHED">>}

(***************************************************************************)
(* The state machine: a caller constructs a QcTask, calls its setters,     *)
(* serializes it and parses the text back; or hands a text to the parser.  *)
(***************************************************************************)
VARIABLES
    task,   \* the QcTask object the caller holds, NoTask when it holds none
    call,   \* the last call: [op, arg]
    err,    \* the exception class the last call raised, "" when it returned
    ret,    \* what the last call returned, when that is no QcTask
    text,   \* the job text: the last str(task), or the input text
    orig,   \* the QcTask text was serialized from, NoTask for an input text
    nset,   \* the setter calls made on task
    pc,     \* "start", "built", "text", "input", "done"
    jobs,   \* the jobs of the QcInput the caller holds
    log,    \* the lines handed to a parser that reads line by line, in blocks
    at,     \* the lines of log that the parser has read
    out     \* the local variables of that parser

vars == <<task, call, err, ret, text, orig, nset, pc, jobs, log, at, out>>

NoCall == [op |-> "", arg |-> None]

Init ==
    /\ task = NoTask
    /\ call = NoCall
    /\ err = ""
    /\ ret = None
    /\ text = ""
    /\ orig = NoTask
    /\ nset = 0
    /\ pc = "start"
    /\ jobs = << >>
    /\ log = << >>
    /\ at = 0
    /\ out = JobLocals

\* task = QcTask(**a)
Constructed(a, r) ==
    /\ call' = [op |-> "QcTask", arg |-> a]
    /\ err' = r.err
    /\ task' = IF r.err = "" THEN r.task ELSE NoTask
    /\ pc' = IF r.err = "" THEN "built" ELSE "done"
Construct ==
    /\ pc = "start"
    /\ \E a \in CtorArgs : Constructed(a, QcTaskInit(a))
    /\ UNCHANGED <<ret, text, orig, nset, jobs, log, at, out>>

\* A setter call that left r = [err, task].
Setter(op, r, arg) ==
    /\ call' = [op |-> op, arg |-> arg]
    /\ err' = r.err
    /\ task' = r.task
    /\ nset' = nset + 1
    /\ orig' = task
    /\ UNCHANGED <<ret, text, pc, jobs, log, at, out>>

\* task.set_basis_set(b)
SetBasisSet ==
    /\ pc = "built" /\ nset < MaxSetterCalls
    /\ \E b \in SetterBasisSets : Setter("set_basis_set", set_basis_set(task, b), b)

\* task.set_auxiliary_basis_set(b)
SetAuxiliaryBasisSet ==
    /\ pc = "built" /\ nset < MaxSetterCalls
    /\ \E b \in SetterAuxBasisSets :
          Setter("set_auxiliary_basis_set", set_auxiliary_basis_set(task, b), b)

\* task.set_ecp(e)
SetEcp ==
    /\ pc = "built" /\ nset < MaxSetterCalls
    /\ \E e \in SetterEcps : Setter("set_ecp", set_ecp(task, e), e)

\* task.set_scf_algorithm_and_iterations(algorithm, iterations)
SetScfAlgorithmAndIterations ==
    /\ pc = "built" /\ nset < MaxSetterCalls
    /\ \E a \in Algorithms, n \in Iterations :
          Setter("set_scf_algorithm_and_iterations",
                 set_scf_algorithm_and_iterations(task, a, n),
                 [algorithm |-> a, iterations |-> n])

\* task.set_dft_grid(radical_points, angular_points, grid_type)
SetDftGrid ==
    /\ pc = "built" /\ nset < MaxSetterCalls
    /\ \E rp \in RadicalPoints, ap \in AngularPoints, g \in GridTypes :
          Setter("set_dft_grid", set_dft_grid(task, rp, ap, g),
                 [radical_points |-> rp, angular_points |-> ap, grid_type |-> g])

\* task.set_scf_initial_guess(guess)
SetScfInitialGuess ==
    /\ pc = "built" /\ nset < MaxSetterCalls
    /\ \E g \in Guesses : Setter("set_scf_initial_guess", set_scf_initial_guess(task, g), g)

\* task.set_geom_opt_coords_type(coords_type)
SetGeomOptCoordsType ==
    /\ pc = "built" /\ nset < MaxSetterCalls
    /\ \E c \in CoordsTypes :
          Setter("set_geom_opt_coords_type", set_geom_opt_coords_type(task, c), c)

\* task.scale_geom_opt_threshold(gradient, displacement, energy)
ScaleGeomOptThreshold ==
    /\ pc = "built" /\ nset < MaxSetterCalls
    /\ \E g \in ScaleFactors, d \in DisplacementFactors, e \in EnergyFactors :
          Setter("scale_geom_opt_threshold", scale_geom_opt_threshold(task, g, d, e),
                 [gradient |-> g, displacement |-> d, energy |-> e])

\* text = str(task)
Serialized(r) ==
    /\ call' = [op |-> "__str__", arg |-> None]
    /\ err' = r.err
    /\ text' = r.text
    /\ pc' = IF r.err = "" THEN "text" ELSE "done"
Serialize ==
    /\ pc = "built"
    /\ Serialized(QcTaskStr(task))
    /\ orig' = task
    /\ UNCHANGED <<task, ret, nset, jobs, log, at, out>>

\* task = QcTask.from_string(text)
Parsed(r) ==
    /\ call' = [op |-> "from_string", arg |-> PyStr(text)]
    /\ err' = r.err
    /\ task' = IF r.err = "" THEN r.task ELSE NoTask
FromString ==
    /\ pc \in {"text", "input"}
    /\ Parsed(from_string(text))
    /\ pc' = "done"
    /\ UNCHANGED <<ret, text, orig, nset, jobs, log, at, out>>

\* The caller is handed one more piece of a job text.
Feed ==
    /\ pc \in {"start", "input"}
    /\ nset < MaxChunks
    /\ \E c \in Chunks : text' = (IF text = "" THEN c ELSE text \o "\n" \o c)
    /\ nset' = nset + 1
    /\ pc' = "input"
    /\ UNCHANGED <<task, call, err, ret, orig, jobs, log, at, out>>

\* ret = QcTask._parse_rem(lines)
RemParsed(lines, r) ==
    /\ call' = [op |-> "_parse_rem", arg |-> lines]
    /\ err' = r.err
    /\ ret' = r.val
ParseRem ==
    /\ pc = "start"
    /\ \E lines \in RemSections : RemParsed(lines, _parse_rem(lines))
    /\ pc' = "done"
    /\ UNCHANGED <<task, text, orig, nset, jobs, log, at, out>>

\* jobs.append(QcTask(**a))
JobAdded(r) ==
    /\ r.err = ""
    /\ jobs' = Append(jobs, r.task)
AddJob ==
    /\ pc \in {"start", "jobs"}
    /\ Len(jobs) < MaxJobs
    /\ \E a \in JobArgs : JobAdded(QcTaskInit(a))
    /\ pc' = "jobs"
    /\ UNCHANGED <<task, call, err, ret, text, orig, nset, log, at, out>>

\* What a caller hands to QcInput, having made the jobs js: the list, the
\* one job by itself, something that is no job, and the list with it.
NotAJob == PyStr("job")
InputArgs(js) ==
    {PyList(js), PyList(Append(js, NotAJob)), NotAJob}
        \cup (IF Len(js) = 1 THEN {js[1]} ELSE {})
\* ret = QcInput(arg).jobs, None for an object without the attribute
InputBuilt(arg, q) ==
    /\ call' = [op |-> "QcInput", arg |-> arg]
    /\ err' = q.err
    /\ ret' = IF q.has_jobs THEN PyList(q.jobs) ELSE None
ConstructInput ==
    /\ pc \in {"start", "jobs"}
    /\ \E arg \in InputArgs(jobs) : InputBuilt(arg, QcInputInit(arg))
    /\ pc' = "done"
    /\ UNCHANGED <<task, text, orig, nset, jobs, log, at, out>>

\* text = str(QcInput(jobs))
InputSerialized(q, r) ==
    /\ call' = [op |-> "QcInput.__str__", arg |-> PyList(jobs)]
    /\ err' = IF q.err # "" THEN q.err ELSE r.err
    /\ text' = r.text
    /\ pc' = IF q.err = "" /\ r.err = "" THEN "joined" ELSE "done"
InputConstructed(q) == InputSerialized(q, QcInputStr(q))
SerializeInput ==
    /\ pc = "jobs"
    /\ InputConstructed(QcInputInit(PyList(jobs)))
    /\ UNCHANGED <<task, ret, orig, nset, jobs, log, at, out>>

\* ret = QcInput.from_string(text).jobs
InputParsed(q) ==
    /\ call' = [op |-> "QcInput.from_string", arg |-> PyStr(text)]
    /\ err' = q.err
    /\ ret' = IF q.err = "" THEN PyList(q.jobs) ELSE None
InputFromString ==
    /\ pc = "joined"
    /\ InputParsed(QcInputFromString(text))
    /\ pc' = "done"
    /\ UNCHANGED <<task, text, orig, nset, jobs, log, at, out>>

\* The caller puts one more piece on the job chunk.
AppendLog ==
    /\ pc \in {"start", "log"}
    /\ Len(log) < MaxBlocks
    /\ \E b \in LogBlocks : log' = Append(log, b)
    /\ pc' = "log"
    /\ UNCHANGED <<task, call, err, ret, text, orig, nset, jobs, at, out>>

\* _parse_job reads the next line of the chunk.
ReadLine ==
    /\ pc \in {"log", "parse"}
    /\ at < Len(Flatten(log))
    /\ out.raised = ""
    /\ out' = ParseJobLine(out, Flatten(log)[at + 1])
    /\ at' = at + 1
    /\ pc' = "parse"
    /\ UNCHANGED <<task, call, err, ret, text, orig, nset, jobs, log>>

\* ret = QcOutput._parse_job(chunk), once the loop is over or has raised
JobParsed(st) ==
    /\ call' = [op |-> "_parse_job", arg |-> PyList(log)]
    /\ err' = st.raised
    /\ ret' = IF st.raised = "" THEN JobData(st) ELSE None
ParseJobEnd ==
    /\ pc = "parse"
    /\ at = Len(Flatten(log)) \/ out.raised # ""
    /\ JobParsed(IF out.raised # "" THEN out ELSE AfterLoop(out, Flatten(log)))
    /\ pc' = "done"
    /\ UNCHANGED <<task, text, orig, nset, jobs, log, at, out>>

\* A caller that picks the solvent model of a job, more than once.
MaxSolventCalls == 2
DielectricConstants == {PyFloat(784, 0 - 1)}
PcmParams ==
    {None, PyDict([k \in {"Theory"} |-> PyStr("CPCM")]),
     PyDict([k \in {"Radii", "HPoints"} |->
                IF k = "Radii" THEN PyStr("Read") ELSE PyInt(194)])}
SolventParams == {None, PyDict([k \in {"Dielectric"} |-> PyFloat(467, 0 - 1)])}
RadiiForceFields == {None, PyStr("UFF")}

\* task.use_cosmo(dielectric_constant)
UseCosmo ==
    /\ pc = "built" /\ nset < MaxSolventCalls
    /\ \E d \in DielectricConstants : Setter("use_cosmo", use_cosmo(task, d), d)

\* task.use_pcm(pcm_params, solvent_params, radii_force_field)
UsePcm ==
    /\ pc = "built" /\ nset < MaxSolventCalls
    /\ \E p \in PcmParams, sp \in SolventParams, ff \in RadiiForceFields :
          Setter("use_pcm", use_pcm(task, p, sp, ff),
                 [pcm_params |-> p, solvent_params |-> sp, radii_force_field |-> ff])

\* The batch sizes an output stream is made with: the default, none, two.
BatchSizes == {PyInt(0 - 1), PyInt(0), PyInt(2)}
\* The configurations an ETLRunner is made from.
MaxSources == 2
Dict1(k, val) == [x \in {k} |-> val]
TargetContents ==
    {Dict1("file", PyStr("out.json")),
     Dict1("file", PyStr("/no/such/dir/out.json")),
     [collection |-> PyStr("tasks"), db |-> PyStr("mp")],
     Dict1("collection", PyStr("tasks")),
     Dict1("db", PyStr("mp")),
     EmptyDict}
SourceContents ==
    {[file |-> PyStr("in.json"), module |-> PyStr("etl_mod")],
     [file |-> PyStr("missing.json"), module |-> PyStr("etl_mod")],
     [collection |-> PyStr("raw"), module |-> PyStr("etl_mod")],
     Dict1("module", PyStr("etl_mod")),
     Dict1("file", PyStr("in.json")),
     [file |-> PyStr("in.json"), module |-> PyStr("no_such_module")],
     [file |-> PyStr("in.json"), module |-> PyStr("etl_mod"), class |-> PyStr("Missing")],
     [file |-> PyStr("in.json"), module |-> PyStr("etl_mod"), class |-> PyStr("BadInit")],
     [file |-> PyStr("in.json"), module |-> PyStr("etl_mod"), class |-> PyStr("Failing")]}
SourceLists ==
    UNION {[1..n -> SourceContents] : n \in 0..MaxSources}
Confs ==
    {[sources |-> ss, target |-> t] : ss \in SourceLists, t \in TargetContents}
        \cup {Dict1("target", t) : t \in TargetContents}
        \cup {Dict1("sources", ss) : ss \in {<< >>}}

\* The run log of one more job is written to the file.
MaxLogJobs == 2
JobHeader(k) == "Running Job " \o NatStr(k) \o " of 2 test.qcin"
\* The lines of the file whose jobs wrote the logs in log.
FileLines(logs) ==
    Flatten([k \in 1..Len(logs) |->
                IF k = 1 THEN logs[k] ELSE <<"", JobHeader(k)>> \o logs[k]])
WriteJobLog ==
    /\ pc \in {"start", "file"}
    /\ Len(log) < MaxLogJobs
    /\ \E b \in LogBlocks : log' = Append(log, b)
    /\ pc' = "file"
    /\ UNCHANGED <<task, call, err, ret, text, orig, nset, jobs, at, out>>

\* ret = QcOutput(filename).data
OutputRead(r) ==
    /\ call' = [op |-> "QcOutput", arg |-> PyList(FileLines(log))]
    /\ err' = r.err
    /\ ret' = IF r.err = "" THEN PyList(r.data) ELSE None
ReadOutput ==
    /\ pc = "file"
    /\ OutputRead(QcOutputInit(FileLines(log)))
    /\ pc' = "done"
    /\ UNCHANGED <<task, text, orig, nset, jobs, log, at, out>>

\* ret = CollectionOutputStream(coll, batch=n)
StreamConstructed(n, r) ==
    /\ call' = [op |-> "CollectionOutputStream", arg |-> n]
    /\ err' = r.err
    /\ ret' = r.stream
ConstructStream ==
    /\ pc = "start"
    /\ \E n \in BatchSizes : StreamConstructed(n, CollectionOutputStreamInit(FALSE, n))
    /\ pc' = "done"
    /\ UNCHANGED <<task, text, orig, nset, jobs, log, at, out>>

\* ret = ETLRunner(conf)
RunnerConstructed(conf, r) ==
    /\ call' = [op |-> "ETLRunner", arg |-> conf]
    /\ err' = r.err
    /\ ret' = r
    /\ pc' = IF r.err = "" THEN "runner" ELSE "done"
ConstructRunner ==
    /\ pc = "start"
    /\ \E conf \in Confs : RunnerConstructed(conf, ETLRunnerInit(conf))
    /\ UNCHANGED <<task, text, orig, nset, jobs, log, at, out>>

\* ret = runner.run()
RunnerRun(r) ==
    /\ call' = [op |-> "run", arg |-> ret]
    /\ err' = r.err
    /\ ret' = r
RunEtl ==
    /\ pc = "runner"
    /\ \E mongo \in MongoStates : RunnerRun(run(ret, mongo))
    /\ pc' = "done"
    /\ UNCHANGED <<task, text, orig, nset, jobs, log, at, out>>

\* A file of lines is written and opened.
WriteLinesFile ==
    /\ pc = "start"
    /\ \E lines \in LinesFiles :
           /\ text' = FileText(lines)
           /\ call' = [op |-> "open", arg |-> lines]
    /\ pc' = "lines"
    /\ UNCHANGED <<task, err, ret, orig, nset, jobs, log, at, out>>

\* One pass of `for idx, line in enumerate(reverse_readline(f))`: the next
\* item is taken, or the iteration ends.
LineYielded(items) ==
    IF at < Len(items)
    THEN /\ ret' = PyStr(items[at + 1])
         /\ at' = at + 1
         /\ pc' = pc
    ELSE /\ pc' = "done"
         /\ UNCHANGED <<ret, at>>
NextReversedLine ==
    /\ pc = "lines"
    /\ call' = [op |-> "reverse_readline", arg |-> call.arg]
    /\ LineYielded(reverse_readline(text))
    /\ UNCHANGED <<task, err, text, orig, nset, jobs, log, out>>

\* One more line is put into the section handed to _parse_coords.
AppendCoordLine ==
    /\ pc \in {"start", "coords"}
    /\ Len(log) < MaxCoordLines
    /\ \E l \in CoordLineTexts : log' = Append(log, <<l>>)
    /\ pc' = "coords"
    /\ UNCHANGED <<task, call, err, ret, text, orig, nset, jobs, at, out>>

\* _parse_coords has read the variables and enters its second loop.
ReadParas ==
    /\ pc = "coords"
    /\ out' = CoordsStart(ParasFrom(Flatten(log), [err |-> "", paras |-> {}]))
    /\ pc' = "geometry"
    /\ UNCHANGED <<task, call, err, ret, text, orig, nset, jobs, log, at>>

\* One turn of the second loop of _parse_coords.
ReadCoordLine ==
    /\ pc = "geometry"
    /\ at < Len(Flatten(log))
    /\ out.err = "" /\ ~out.stop
    /\ out' = ParseCoordLine(out, Strip(Flatten(log)[at + 1]))
    /\ at' = at + 1
    /\ UNCHANGED <<task, call, err, ret, text, orig, nset, pc, jobs, log>>

\* ret = QcTask._parse_coords(coord_lines)
CoordsParsed(r) ==
    /\ call' = [op |-> "_parse_coords", arg |-> PyList(Flatten(log))]
    /\ err' = r.err
    /\ ret' = r.val
ParseCoordsEnd ==
    /\ pc = "geometry"
    /\ at = Len(Flatten(log)) \/ out.err # "" \/ out.stop
    /\ CoordsParsed(CoordsResult(out))
    /\ pc' = "done"
    /\ UNCHANGED <<task, text, orig, nset, jobs, log, at, out>>

\* A caller that builds a job and adjusts it with the setters.
Next ==
    \/ Construct
    \/ SetBasisSet
    \/ SetAuxiliaryBasisSet
    \/ SetEcp
    \/ SetScfAlgorithmAndIterations
    \/ SetDftGrid
    \/ SetScfInitialGuess
    \/ SetGeomOptCoordsType
    \/ ScaleGeomOptThreshold

Spec == Init /\ [][Next]_vars

\* A caller that builds a job and picks its solvent model.
NextSolvent ==
    \/ Construct
    \/ UseCosmo
    \/ UsePcm

SpecSolvent == Init /\ [][NextSolvent]_vars

\* A caller that writes jobs out and reads job texts in.
NextCodec ==
    \/ Construct
    \/ Serialize
    \/ Feed
    \/ FromString
    \/ ParseRem

SpecCodec == Init /\ [][NextCodec]_vars

\* A caller that writes a list of jobs out as one text and reads it back.
NextInput ==
    \/ AddJob
    \/ ConstructInput
    \/ SerializeInput
    \/ InputFromString

SpecInput == Init /\ [][NextInput]_vars

\* A caller that hands the chunk of one job of a log to QcOutput._parse_job.
NextLog ==
    \/ AppendLog
    \/ ReadLine
    \/ ParseJobEnd

SpecLog == Init /\ [][NextLog]_vars

\* A caller that opens the run log of several jobs with QcOutput.
NextOutput ==
    \/ WriteJobLog
    \/ ReadOutput

SpecOutput == Init /\ [][NextOutput]_vars

\* A caller that configures an ETLRunner and runs it.
NextEtl ==
    \/ ConstructRunner
    \/ RunEtl
    \/ ConstructStream

SpecEtl == Init /\ [][NextEtl]_vars

\* A test that reads a file of lines backwards.
NextLines ==
    \/ WriteLinesFile
    \/ NextReversedLine

SpecLines == Init /\ [][NextLines]_vars

\* A caller that hands the lines of a geometry to QcTask._parse_coords.
NextCoords ==
    \/ AppendCoordLine
    \/ ReadParas
    \/ ReadCoordLine
    \/ ParseCoordsEnd

SpecCoords == Init /\ [][NextCoords]_vars

(***************************************************************************)
(* Properties of the constructor and the setters, checked under Spec      *)
(***************************************************************************)
\* The element keys of a per-element mapping: element.strip().capitalize()
Keys(d) == {Capitalize(Strip(k)) : k \in DOMAIN d.v}

\* The last call constructed a job for a molecule given by its atoms.
CartesianCall == call.op = "QcTask" /\ IsMolecule(call.arg.molecule)
\* The charge of that job, and its electrons: atomic numbers minus charge.
CallCharge ==
    IF IsNone(call.arg.charge) THEN call.arg.molecule.v.charge ELSE call.arg.charge.v
CallElectrons == SumZ(call.arg.molecule.v.sites) - CallCharge

\* C2: a constructor call for a Cartesian molecule with an explicit spin
\* multiplicity s fails unless (electrons + s) mod 2 = 1, electrons being the
\* atomic numbers minus the job charge; with no s given the job gets s = 1 for
\* an even and s = 2 for an odd electron count; so every constructed Cartesian
\* job has the parity.
C2_ChargeSpinParity ==
    CartesianCall =>
        /\ (/\ ~IsNone(call.arg.spin_multiplicity)
            /\ (CallElectrons + call.arg.spin_multiplicity.v) % 2 # 1) => err # ""
        /\ err = "" =>
              /\ task.charge = PyInt(CallCharge)
              /\ (CallElectrons + task.spin_multiplicity.v) % 2 = 1
              /\ IsNone(call.arg.spin_multiplicity) =>
                    task.spin_multiplicity =
                        PyInt(IF CallElectrons % 2 = 0 THEN 1 ELSE 2)

\* A job built with a charge other than the molecule's own and an explicit
\* spin multiplicity.
C2_Witness ==
    /\ CartesianCall
    /\ ~IsNone(call.arg.charge)
    /\ call.arg.charge.v # call.arg.molecule.v.charge
    /\ ~IsNone(call.arg.spin_multiplicity)
    /\ err = ""
    /\ pc = "built"

\* C3: a call with a per-element basis mapping (the constructor, set_basis_set)
\* or auxiliary basis mapping (set_auxiliary_basis_set) fails if and only if
\* the mapping's keys differ from the molecule's elements, and for no other
\* reason: not for a "read" molecule.
C3_BasisCoverage ==
    /\ (call.op \in {"set_basis_set", "set_auxiliary_basis_set"} /\ IsDict(call.arg)) =>
          (err # "" <=>
              (IsMolecule(task.mol) /\ Keys(call.arg) # MolElements(task.mol)))
    /\ (/\ call.op = "QcTask"
        /\ IsDict(call.arg.basis_set)
        /\ IsNone(call.arg.aux_basis_set)
        /\ IsNone(call.arg.ecp)) =>
          (err # "" <=>
              (/\ IsMolecule(call.arg.molecule)
               /\ Keys(call.arg.basis_set) # MolElements(call.arg.molecule)))

\* C4: every constructed job holds a jobtype of the jobtype vocabulary, aliases
\* normalized, whatever way the jobtype came in (the jobtype argument or
\* rem_params).  The source has no exchange vocabulary to state the exchange
\* half with.
C4_JobtypeVocabulary ==
    (call.op = "QcTask" /\ err = "") =>
        /\ IsStr(Rem(task)["jobtype"])
        /\ Rem(task)["jobtype"].v \in available_jobtypes

\* C6: a call with a per-element ecp mapping on a Cartesian molecule (set_ecp,
\* or the constructor with nothing else per-element) fails if and only if some
\* key is no element of the molecule; elements without an entry are allowed.
C6_EcpCoverage ==
    /\ (call.op = "set_ecp" /\ IsDict(call.arg) /\ IsMolecule(task.mol)) =>
          (err # "" <=> ~(Keys(call.arg) \subseteq MolElements(task.mol)))
    /\ (/\ CartesianCall
        /\ IsDict(call.arg.ecp)
        /\ IsStr(call.arg.basis_set)
        /\ ~IsDict(call.arg.aux_basis_set)) =>
          (err # "" <=>
              ~(Keys(call.arg.ecp) \subseteq MolElements(call.arg.molecule)))

\* set_ecp accepted a mapping that leaves an element of the molecule out.
C6_Witness ==
    /\ call.op = "set_ecp"
    /\ IsDict(call.arg)
    /\ IsMolecule(task.mol)
    /\ Keys(call.arg) # MolElements(task.mol)
    /\ err = ""
    /\ DOMAIN task.params["ecp"].v = Keys(call.arg)

(***************************************************************************)
(* Properties of the serializer and the parser, checked under SpecCodec    *)
(***************************************************************************)
\* The job the text was written from holds an allowed jobtype or an alias of
\* one.
AllowedJobtype(t) ==
    /\ IsStr(Rem(t)["jobtype"])
    /\ JobtypeChecked(Rem(t)["jobtype"].v) \in available_jobtypes

\* C1: the text of a constructed job with an allowed jobtype parses, and to a
\* job of the same charge, spin multiplicity and params.
C1_RoundTrip ==
    (call.op = "from_string" /\ orig # NoTask /\ AllowedJobtype(orig)) =>
        /\ err = ""
        /\ task.charge = orig.charge
        /\ task.spin_multiplicity = orig.spin_multiplicity
        /\ task.params = orig.params

\* C5: the job a constructor call or from_string leaves has charge and spin
\* multiplicity both set or both unset; a constructor call with a "read" or
\* absent molecule and only one of the two fails.
C5_SetTogether ==
    /\ IsNone(task.charge) <=> IsNone(task.spin_multiplicity)
    /\ (/\ call.op = "QcTask"
        /\ ~IsMolecule(call.arg.molecule)
        /\ IsNone(call.arg.charge) # IsNone(call.arg.spin_multiplicity)) => err # ""

\* A constructor call for a "read" or absent molecule with only one of the
\* two, which failed.
C5_Witness ==
    /\ call.op = "QcTask"
    /\ (IsNone(call.arg.molecule) \/ IsRead(NormMolecule(call.arg.molecule)))
    /\ IsNone(call.arg.charge) # IsNone(call.arg.spin_multiplicity)
    /\ err = "ValueError"
    /\ task = NoTask

\* The outline of a job text, read off its lines one by one: the names of the
\* sections opened, the body lines of each, whether the text ends in an open
\* section, has an $end with no section open, or a line outside any section.
OutlineLine(o, line, l) ==
    IF l = "" THEN o
    ELSE IF o.open
    THEN IF l = "$end" THEN [o EXCEPT !.open = FALSE]
         ELSE [o EXCEPT !.bodies[Len(o.bodies)] = Append(@, line)]
    ELSE IF l = "$end" THEN [o EXCEPT !.stray_end = TRUE]
    ELSE IF ~StartsWith(l, "$") THEN [o EXCEPT !.stray_text = TRUE]
    ELSE [o EXCEPT !.open = TRUE,
                   !.headers = Append(@, SubSeq(l, 2, Len(l))),
                   !.bodies = Append(@, << >>)]
RECURSIVE OutlineFrom(_, _)
OutlineFrom(o, lines) ==
    IF Len(lines) = 0 THEN o
    ELSE OutlineFrom(OutlineLine(o, lines[1], Lower(Strip(lines[1]))), Tail(lines))
Outline(contents) ==
    OutlineFrom([open |-> FALSE, headers |-> << >>, bodies |-> << >>,
                 stray_end |-> FALSE, stray_text |-> FALSE],
                SplitOn(contents, "\n"))
\* Section name h opens two sections of outline o.
OpensTwice(o, h) ==
    \E i, j \in 1..Len(o.headers) : i < j /\ o.headers[i] = h /\ o.headers[j] = h

\* C7: from_string fails on a text in which the name of a section with a
\* parser (comment, molecule, rem, ...) opens two sections.
C7_DuplicateSectionsRejected ==
    (call.op = "from_string" /\ \E h \in ParsedSections : OpensTwice(Outline(text), h))
        => err # ""

\* What from_string makes of the delimiters of outline o.
DelimitersChecked(o) ==
    /\ (o.open \/ o.stray_end \/ o.stray_text) => err # ""
    /\ err = "" =>
          /\ \A i \in 1..Len(o.headers) :
                o.headers[i] = "comment" =>
                    /\ "comment" \in DOMAIN task.params
                    /\ task.params["comment"] = PyStr(Strip(Join(o.bodies[i], "\n")))
          /\ (\A i \in 1..Len(o.headers) : o.headers[i] # "molecule") =>
                IsRead(task.mol) /\ IsNone(task.charge)
          /\ DOMAIN task.params \subseteq {o.headers[i] : i \in 1..Len(o.headers)}

\* C8: from_string fails on a text that ends in an open section, has an $end
\* with no section open, or a non-blank line outside any section; a $name line
\* inside an open section is body text of that section and opens nothing.
C8_DelimitersRejected ==
    call.op = "from_string" => DelimitersChecked(Outline(text))

\* A parsed job whose comment holds the $molecule line that followed the
\* $comment header, and whose molecule is not the one of those lines.
C8_Witness ==
    /\ call.op = "from_string"
    /\ err = ""
    /\ "comment" \in DOMAIN task.params
    /\ StartsWith(task.params["comment"].v, "$molecule")
    /\ IsRead(task.mol)
    /\ IsNone(task.charge)

\* What from_string makes of the section names of outline o.
NamesDispatched(o) ==
    /\ (\E i \in 1..Len(o.headers) : o.headers[i] \notin available_sections)
          => err # ""
    /\ (\E i \in 1..Len(o.headers) :
            o.headers[i] \in available_sections \ ParsedSections) => err # ""
    /\ err = "" => DOMAIN task.params \subseteq ParsedSections

\* C9: from_string fails on a header whose name is not of the section set, and
\* on a section of the set without a _parse_<name> (as $nbo); no body of such
\* a section is in a parsed job.
C9_SectionDispatch ==
    call.op = "from_string" => NamesDispatched(Outline(text))

\* A text with a well-formed $nbo section, refused for want of _parse_nbo.
C9_Witness ==
    /\ call.op = "from_string"
    /\ Contains(text, "$nbo\n$end")
    /\ err = "Exception"
    /\ task = NoTask

\* The key a $rem line is stored under, and the value a token stands for.
StoredKey(k) ==
    CASE k = "job_type" -> "jobtype"
      [] k = "symmetry_ignore" -> "sym_ignore"
      [] k = "scf_max_cycles" -> "max_scf_cycles"
      [] OTHER -> k
TokenValue(k, v) ==
    IF k = "xc_grid" THEN PyStr(v)
    ELSE IF v = "True" THEN PyBool(TRUE)
    ELSE IF v = "False" THEN PyBool(FALSE)
    ELSE IF int_pattern(v) THEN PyInt(ParseInt(v))
    ELSE IF float_pattern(v) THEN ParseFloat(v)
    ELSE PyStr(Lower(v))
LineTyped(tokens) ==
    IF Len(tokens) < 2 THEN err # ""
    ELSE /\ err = ""
         /\ StoredKey(Lower(tokens[1])) \in DOMAIN ret.v
         /\ ret.v[StoredKey(Lower(tokens[1]))]
                = TokenValue(StoredKey(Lower(tokens[1])), tokens[2])

\* C10: _parse_rem stores the value of a `key value` or `key = value` line
\* under the lower-cased, alias-normalized key: an int, a float, a bool, else
\* the lower-cased string, and for xc_grid the token itself; a line of fewer
\* than two tokens fails.  Stated of the last line of the section.
C10_RemTyping ==
    call.op = "_parse_rem" => LineTyped(KeyValueTokens(call.arg[Len(call.arg)]))

(***************************************************************************)
(* Properties of the serialized text                                       *)
(***************************************************************************)
\* The sections str(t) is to hold, in order.
ExpectedSections(t) ==
    (IF "comment" \in DOMAIN t.params THEN <<"comment">> ELSE << >>)
        \o <<"molecule", "rem">>
        \o Sorted(DOMAIN t.params \cap optional_keywords_list)
\* The keys the $rem section of str(t) is to hold, in order.
ExpectedRemKeys(t) ==
    <<"jobtype", "exchange", "basis">>
        \o Sorted(DOMAIN Rem(t) \ {"jobtype", "exchange", "basis"})
\* The first token of every line of a section body.
BodyKeys(body) == [i \in 1..Len(body) |-> Split(body[i])[1]]
\* Outline o holds exactly the sections and the rem keys expected of t.
OutlineInOrder(o, t) ==
    /\ ~o.open /\ ~o.stray_end /\ ~o.stray_text
    /\ o.headers = ExpectedSections(t)
    /\ \A i \in 1..Len(o.headers) :
          o.headers[i] = "rem" => BodyKeys(o.bodies[i]) = ExpectedRemKeys(t)

\* C11: str(task) returns a text that holds every section once, as $name,
\* body, $end, in the order comment (when a title is set), molecule, rem,
\* then the optional sections of params alphabetically; the $rem body holds
\* jobtype, exchange, basis and then the other keys alphabetically, each once.
C11_SerializationOrder ==
    call.op = "__str__" => (err = "" /\ OutlineInOrder(Outline(text), orig))

\* The optional_params keys of the constructor call, none for no mapping.
OptionalKeys(a) == IF IsDict(a.optional_params) THEN DOMAIN a.optional_params.v ELSE {}

\* C12: the constructor fails and leaves no QcTask when the lower-cased form
\* of an optional_params key is not in optional_keywords_list; when it
\* returns, every supplied section is in params under its section name, the
\* lower-case name of the list.
C12_OptionalSectionAllowList ==
    call.op = "QcTask" =>
        /\ (\E k \in OptionalKeys(call.arg) : Lower(k) \notin optional_keywords_list)
              => (err # "" /\ task = NoTask)
        /\ err = "" =>
              \A k \in OptionalKeys(call.arg) :
                  /\ Lower(k) \in DOMAIN task.params
                  /\ task.params[Lower(k)] = call.arg.optional_params.v[k]

\* Job t uses an RI or XYG-type method.
AuxBasisNeeded(t) ==
    \/ Rem(t)["exchange"] \in {PyStr("xygjos"), PyStr("xyg3"), PyStr("lxygjos")}
    \/ /\ "correlation" \in DOMAIN Rem(t)
       /\ IsStr(Rem(t)["correlation"])
       /\ StartsWith(Rem(t)["correlation"].v, "ri")
\* The normalized rem keys constructor call a supplies through rem_params.
RemParamKeys(a) ==
    IF IsDict(a.rem_params) THEN {RemKey(k) : k \in DOMAIN a.rem_params.v} ELSE {}
\* Job t holds the default auxiliary basis of its basis set.
AuxBasisDefaulted(t) ==
    \/ /\ StartsWith(Rem(t)["basis"].v, "6-31+g")
       /\ Rem(t)["aux_basis"] = PyStr("rimp2-aug-cc-pvdz")
    \/ /\ StartsWith(Rem(t)["basis"].v, "6-311+g")
       /\ Rem(t)["aux_basis"] = PyStr("rimp2-aug-cc-pvtz")

\* C13: every constructed job with exchange xygjos, xyg3 or lxygjos, or with a
\* correlation starting with "ri", holds rem.aux_basis; when the call supplies
\* no auxiliary basis, the job holds the default of a string basis set that
\* starts with 6-31+g (rimp2-aug-cc-pvdz) or 6-311+g (rimp2-aug-cc-pvtz), and
\* with any other basis set the call fails.
C13_AuxBasisMandatory ==
    (call.op = "QcTask" /\ err = "" /\ AuxBasisNeeded(task)) =>
        /\ "aux_basis" \in DOMAIN Rem(task)
        /\ (/\ IsNone(call.arg.aux_basis_set)
            /\ "aux_basis" \notin RemParamKeys(call.arg)) =>
              (IsStr(call.arg.basis_set) /\ AuxBasisDefaulted(task))

\* A job with exchange xyg3 built with no auxiliary basis on 6-311+G**, which
\* got the triple-zeta default.
C13_Witness ==
    /\ call.op = "QcTask"
    /\ err = ""
    /\ Rem(task)["exchange"] = PyStr("xyg3")
    /\ IsNone(call.arg.aux_basis_set)
    /\ call.arg.basis_set = PyStr("6-311+G**")
    /\ Rem(task)["aux_basis"] = PyStr("rimp2-aug-cc-pvtz")

(***************************************************************************)
(* Properties of QcInput, checked under SpecInput                          *)
(***************************************************************************)
\* Job p is job j read back: the same charge, spin multiplicity and params.
SameJob(p, j) ==
    /\ p.charge = j.charge
    /\ p.spin_multiplicity = j.spin_multiplicity
    /\ p.params = j.params

\* C14: QcInput.from_string(str(QcInput(jobs))) returns as many jobs as the
\* list written, in its order, job i the same as jobs[i] and the same as the
\* text of jobs[i] parsed on its own.
C14_SequenceRoundTrip ==
    call.op = "QcInput.from_string" =>
        /\ err = ""
        /\ Len(ret.v) = Len(jobs)
        /\ \A i \in 1..Len(jobs) :
              /\ SameJob(ret.v[i], jobs[i])
              /\ ret.v[i] = from_string(QcTaskStr(jobs[i]).text).task

(***************************************************************************)
(* Properties of the $molecule section, checked under SpecCodec            *)
(***************************************************************************)
\* Outline o is one $molecule section and one $rem section of `key = value`
\* lines with a jobtype and a basis, and an optional $comment, all closed.
MoleculeAndRem(o) ==
    /\ ~o.open /\ ~o.stray_end /\ ~o.stray_text
    /\ \A i, j \in 1..Len(o.headers) : o.headers[i] = o.headers[j] => i = j
    /\ {o.headers[i] : i \in 1..Len(o.headers)} \in
           {{"molecule", "rem"}, {"molecule", "rem", "comment"}}
    /\ \A i \in 1..Len(o.headers) :
          o.headers[i] = "rem" =>
              /\ \A k \in 1..Len(o.bodies[i]) : Len(KeyValueTokens(o.bodies[i][k])) = 2
              /\ {"jobtype", "basis"} \subseteq {BodyKeys(o.bodies[i])[k] :
                                                    k \in 1..Len(o.bodies[i])}
\* The body of the $molecule section of outline o.
MoleculeLines(o) == o.bodies[CHOOSE i \in 1..Len(o.headers) : o.headers[i] = "molecule"]
\* Line l is a charge and a multiplicity.
IsChargeLine(l) ==
    /\ Len(Split(l)) = 2
    /\ int_pattern(Split(l)[1])
    /\ AllDigits(Split(l)[2])
\* What from_string makes of $molecule body b.
MoleculeRead(b) ==
    /\ (Len(b) = 2 /\ IsChargeLine(b[1]) /\ Lower(Strip(b[2])) = "read") =>
          /\ err = ""
          /\ IsRead(task.mol)
          /\ task.charge = PyInt(ParseInt(Split(b[1])[1]))
          /\ task.spin_multiplicity = PyInt(ParseNat(Split(b[1])[2]))
          /\ _format_molecule(task) =
                 <<" " \o IntStr(ParseInt(Split(b[1])[1])) \o "  "
                       \o NatStr(ParseNat(Split(b[1])[2])), " read">>
    /\ (Len(b) = 1 /\ Lower(Strip(b[1])) = "read") =>
          /\ err = ""
          /\ IsRead(task.mol)
          /\ IsNone(task.charge)
          /\ IsNone(task.spin_multiplicity)
          /\ _format_molecule(task) = <<" read">>
    /\ (Len(b) > 1 /\ ~IsChargeLine(b[1]) /\ Lower(Strip(b[1])) # "read") => err # ""

ActiveModes(st) ==
    {m \in {"parse_input", "parse_coords", "parse_scf_iter", "parse_gradient",
            "parse_freq", "parse_charge"} : st[m]}

\* C16: after any prefix of the lines of a chunk at most one of the
\* extraction modes (echoed input, coordinates, SCF iterations, gradient,
\* frequencies, population charges) is active, and the mode-parsing flag is
\* set only while the frequencies mode is.
C16_ModesExclusive ==
    /\ Cardinality(ActiveModes(out)) <= 1
    /\ out.parse_modes => out.parse_freq

\* The line _parse_job has read last.
LineRead == Flatten(log)[at]

\* C17: whatever state the parser is in when it reads a line, the labels of
\* the error signatures that match the line are appended to errors, once each
\* and in the order of the signatures, whether or not errors has them already.
C17_ErrorScanIndependent ==
    [][at' = at + 1 => out'.errors = out.errors \o ErrorLabels(Flatten(log)[at + 1])]_vars
\* A line with an error signature was read inside an extraction mode while
\* errors already had its label.
C17_Witness ==
    /\ at > 1
    /\ ActiveModes(out) # {}
    /\ ErrorLabels(LineRead) # << >>
    /\ \E i \in 1..(Len(out.errors) - 1) : out.errors[i] = out.errors[Len(out.errors)]

\* The fields of the record _parse_job returns.
DataFields ==
    {"jobtype", "energies", "charges", "corrections", "molecules", "errors",
     "has_error", "frequencies", "gradients", "input", "gracefully_terminated",
     "scf_iteration_energies", "solvent_method"}

\* C18: for every chunk, whatever its lines, _parse_job raises nothing and
\* returns a record with all of its fields.
C18_NeverAborts ==
    call.op = "_parse_job" => (err = "" /\ DOMAIN ret = DataFields)

RECURSIVE LocalsAfter(_, _)
\* The locals of _parse_job after the first n of lines.
LocalsAfter(lines, n) ==
    IF n = 0 THEN JobLocals ELSE ParseJobLine(LocalsAfter(lines, n - 1), lines[n])
Count(seq, x) == Cardinality({i \in 1..Len(seq) : seq[i] = x})
\* The lines of an SCF attempt that report convergence: each with the number
\* of the attempt it belongs to.
ConvergedAttempts(lines) ==
    {Len(LocalsAfter(lines, i - 1).scf_iters) :
        i \in {j \in 1..Len(lines) :
                  /\ Contains(lines[j], "Convergence criterion met")
                  /\ ~Contains(lines[j], "SCF time:  CPU")
                  /\ LocalsAfter(lines, j - 1).parse_scf_iter}}
\* The post-pass has appended 'Bad SCF convergence' to the errors of the loop.
BadScfAppended ==
    Count(ret.errors, "Bad SCF convergence") = Count(out.errors, "Bad SCF convergence") + 1

\* C19 as stated: the post-pass appends 'Bad SCF convergence' exactly when no
\* SCF attempt of the job reported 'Convergence criterion met' and errors
\* does not have the label yet; a job with a converged attempt and no
\* 'Convergence failure' line ends without the label.
C19_ScfConvergence ==
    (call.op = "_parse_job" /\ err = "") =>
        /\ BadScfAppended <=>
               (/\ ConvergedAttempts(Flatten(log)) = {}
                /\ Count(out.errors, "Bad SCF convergence") = 0)
        /\ (/\ ConvergedAttempts(Flatten(log)) # {}
            /\ Count(out.errors, "Bad SCF convergence") = 0)
               => Count(ret.errors, "Bad SCF convergence") = 0

\* C19, amended: the post-pass appends 'Bad SCF convergence' exactly when the
\* last SCF attempt of the job (if any) did not report 'Convergence criterion
\* met' and errors does not have the label yet.
C19_LastScfAttempt ==
    (call.op = "_parse_job" /\ err = "") =>
        (BadScfAppended <=>
             (/\ Len(out.scf_iters) \notin ConvergedAttempts(Flatten(log))
              /\ Count(out.errors, "Bad SCF convergence") = 0))
\* An earlier attempt converged, the last one did not and no line reported a
\* convergence failure: the post-pass appended the label.
C19_Witness ==
    /\ call.op = "_parse_job" /\ err = ""
    /\ ConvergedAttempts(Flatten(log)) # {}
    /\ Len(out.scf_iters) \notin ConvergedAttempts(Flatten(log))
    /\ BadScfAppended

Has(seq, x) == \E i \in 1..Len(seq) : seq[i] = x
BothFound(st) == ~IsNone(st.charge) /\ ~IsNone(st.spin_multiplicity)
\* Every geometry of the result carries the charge and spin the loop found.
Stamped(data, st) ==
    \A i \in 1..Len(data.molecules) :
        /\ data.molecules[i].v.charge = st.charge.v
        /\ data.molecules[i].v.spin = st.spin_multiplicity.v
NoLineHas(lines, s) == \A i \in 1..Len(lines) : ~Contains(lines[i], s)

\* C20: errors has 'Molecular charge is not found' when the charge was never
\* found and, independently, 'Molecular spin multipilicity is not found' when
\* the spin multiplicity was never found; the geometries are stamped with the
\* final charge and spin exactly when both were found; a chunk with no
\* convergence marker and no 'Sum of atomic charges' line has both
\* 'Molecular charge is not found' and 'Bad SCF convergence'.
C20_MissingChargeSpin ==
    (call.op = "_parse_job" /\ err = "") =>
        /\ IsNone(out.charge) => Has(ret.errors, "Molecular charge is not found")
        /\ IsNone(out.spin_multiplicity)
               => Has(ret.errors, "Molecular spin multipilicity is not found")
        /\ IF BothFound(out) THEN Stamped(ret, out) ELSE ret.molecules = out.molecules
        /\ (/\ NoLineHas(Flatten(log), "Convergence criterion met")
            /\ NoLineHas(Flatten(log), "Sum of atomic charges"))
               => (/\ Has(ret.errors, "Molecular charge is not found")
                   /\ Has(ret.errors, "Bad SCF convergence"))

\* Line i of lines is read with no extraction mode active.
ReadIdle(lines, i) == ActiveModes(LocalsAfter(lines, i - 1)) = {}
\* The markers the else-branch looks for before 'OPTIMIZATION CONVERGED'.
EarlierMarkers ==
    {"User input:", "Standard Nuclear Orientation (Angstroms)",
     "Cycle       Energy         DIIS Error", "Cycle       Energy        RMS Gradient",
     "Gradient of SCF Energy", "VIBRATIONAL ANALYSIS",
     "Thank you very much for using Q-Chem."}
\* Some line with 'OPTIMIZATION CONVERGED' was read between sections as that marker.
OptimizationRecognised(lines) ==
    \E i \in 1..Len(lines) :
        /\ Contains(lines[i], "OPTIMIZATION CONVERGED")
        /\ \A mk \in EarlierMarkers : ~Contains(lines[i], mk)
        /\ ReadIdle(lines, i)
\* The post-pass has appended label to the errors of the loop.
PostPassAppended(label) == Count(ret.errors, label) = Count(out.errors, label) + 1

\* C21: a job whose echoed input has jobtype 'opt' ends with 'Geometry
\* optimization failed' in errors exactly when no 'OPTIMIZATION CONVERGED'
\* line was recognised or a line has 'MAXIMUM OPTIMIZATION CYCLES REACHED';
\* the post-pass adds the label only when errors has not got it and the
\* jobtype is 'opt'.
C21_OptimizationFailed ==
    (call.op = "_parse_job" /\ err = "") =>
        /\ IsJobtype(ret.jobtype, "opt") =>
               (Has(ret.errors, "Geometry optimization failed") <=>
                    (\/ ~OptimizationRecognised(Flatten(log))
                     \/ ~NoLineHas(Flatten(log), "MAXIMUM OPTIMIZATION CYCLES REACHED")))
        /\ Count(ret.errors, "Geometry optimization failed")
               # Count(out.errors, "Geometry optimization failed")
               => (/\ PostPassAppended("Geometry optimization failed")
                   /\ Count(out.errors, "Geometry optimization failed") = 0
                   /\ IsJobtype(ret.jobtype, "opt"))
\* An 'opt' job without a recognised 'OPTIMIZATION CONVERGED' line got the
\* label from the post-pass.
C21_Witness ==
    /\ call.op = "_parse_job" /\ err = ""
    /\ IsJobtype(ret.jobtype, "opt")
    /\ ~OptimizationRecognised(Flatten(log))
    /\ PostPassAppended("Geometry optimization failed")

\* txt occurs in the chunk; 'CC.*converged' as CC with converged after it on
\* the same line.
InJobText(lines, txt) ==
    IF txt = "CC.*converged"
    THEN \E i \in 1..Len(lines) :
             \E p \in PlacesOf("CC", lines[i], 1) :
                 \E q \in PlacesOf("converged", lines[i], 1) : q >= p + 2
    ELSE ~NoLineHas(lines, txt)
\* The texts a successful job with the rem section rem has to show.
TextsOfSuccess(rem) ==
    {"Convergence criterion met"}
        \cup {t \in {"CC.*converged"} :
                 /\ "correlation" \in DOMAIN rem
                 /\ \/ Contains(rem["correlation"].v, "ccsd")
                    \/ Contains(rem["correlation"].v, "qcisd")}
        \cup {t \in {"OPTIMIZATION CONVERGED"} : rem["jobtype"].v \in {"opt", "ts"}}
        \cup {t \in {"VIBRATIONAL ANALYSIS"} : rem["jobtype"].v = "freq"}
        \cup {t \in {"Gradient of SCF Energy"} : rem["jobtype"].v = "gradient"}
\* The labels errors holds before the expected-success check: all but its own.
EarlierLabels(errors) ==
    SelectSeq(errors, LAMBDA e : e # "Can't find text to indicate success")

\* C22: the expected-success check runs only when errors is empty after the
\* earlier steps; it then looks in the whole job text for 'Convergence
\* criterion met', for 'CC.*converged' when the correlation has ccsd or qcisd,
\* for 'OPTIMIZATION CONVERGED' when the jobtype is opt or ts, for
\* 'VIBRATIONAL ANALYSIS' when it is freq and for 'Gradient of SCF Energy'
\* when it is gradient, and appends one "Can't find text to indicate success"
\* per text it does not find.
C22_ExpectedSuccess ==
    (call.op = "_parse_job" /\ err = "") =>
        Count(ret.errors, "Can't find text to indicate success") =
            IF Len(EarlierLabels(ret.errors)) # 0 THEN 0
            ELSE Cardinality({t \in TextsOfSuccess(Rem(ret.input)) :
                                 ~InJobText(Flatten(log), t)})
\* A job with no other label lacks two of the texts its input calls for.
C22_Witness ==
    /\ call.op = "_parse_job" /\ err = ""
    /\ Len(EarlierLabels(ret.errors)) = 0
    /\ Count(ret.errors, "Can't find text to indicate success") = 2

\* The correlation-energy match of line, in either of the pattern's forms.
CorrEnergyMatch(line) ==
    CorrMatch(line, Search(corr_energy_total_pattern, line),
              Search(corr_energy_pattern, line))
OneAppended(before, after, label) ==
    /\ Len(after) = Len(before) + 1
    /\ SubSeq(after, 1, Len(before)) = before
    /\ after[Len(after)][1] = label
\* What reading line does to energies, st the locals before and nx after.
EnergyStep(st, nx, line, corr) ==
    IF ActiveModes(st) # {} THEN nx.energies = st.energies
    ELSE IF corr.m # << >>
    THEN OneAppended(st.energies, nx.energies, Group(line, corr.m, 1, 1))
    ELSE IF Search(scf_energy_pattern, line) # << >>
    THEN OneAppended(st.energies, nx.energies, "SCF")
    ELSE nx.energies = st.energies

\* C23: a line read in the idle state that matches the SCF energy pattern
\* appends one entry labelled 'SCF' to energies, whatever value the pattern
\* took (-0.0 included); one that matches the correlation-energy pattern
\* appends one entry labelled with the method name; the entries keep the
\* order of their lines, and a line read inside an extraction mode appends
\* none.
C23_EnergyExtraction ==
    [][at' = at + 1 =>
          EnergyStep(out, out', Flatten(log)[at + 1],
                     CorrEnergyMatch(Flatten(log)[at + 1]))]_vars

\* The place of the last of the first n lines that has s, 0 when none has.
LastLineWith(lines, n, s) ==
    IF \A j \in 1..n : ~Contains(lines[j], s) THEN 0
    ELSE CHOOSE j \in 1..n :
             /\ Contains(lines[j], s)
             /\ \A k \in (j + 1)..n : ~Contains(lines[k], s)
\* The records of one block of modes: freqs its frequencies, rows its
\* displacement lines, one 3-vector per atom in each record.
BlockRecords(freqs, rows) ==
    [k \in 1..Len(freqs) |->
        [frequency |-> freqs[k],
         vib_mode |-> [r \in 1..Len(rows) |-> Triples(Floats(Rest(Split(rows[r]))))[k]]]]
\* The records of the block that the 'TransDip' line n + 1 of lines closes,
\* h its header line and f its 'Frequency:' line.
ClosedBlockRecords(lines, n, h, f) ==
    BlockRecords(Floats(Rest(Split(lines[f]))), SubSeq(lines, h + 1, n))
ClosesModes(st, line) ==
    /\ ActiveModes(st) = {"parse_freq"}
    /\ st.parse_modes
    /\ Contains(line, "TransDip")

\* C24: the records appended at a 'TransDip' line pair each frequency of the
\* block it closes with one displacement 3-vector per atom, all from the
\* lines of that block, whatever blocks came before; so there are as many
\* records as frequencies listed.
C24_FrequencyRecords ==
    [][(at' = at + 1 /\ ClosesModes(out, Flatten(log)[at + 1])) =>
          out'.freqs = out.freqs
              \o ClosedBlockRecords(Flatten(log), at,
                                    LastLineWith(Flatten(log), at, "X      Y      Z"),
                                    LastLineWith(Flatten(log), at, "Frequency:"))]_vars

\* The k-th 12-character column of a gradient row, after its 5-character index.
LayoutColumn(line, k) == SubSeq(line, 12 * k - 6, 12 * k + 5)
\* line is a gradient data row in the fixed-width layout: a row number in the
\* first 5 characters, then 12-character columns with one number each.
IsLayoutRow(line) ==
    /\ Len(line) > 5 /\ (Len(line) - 5) % 12 = 0
    /\ AllDigits(Strip(SubSeq(line, 1, 5))) /\ Len(Strip(SubSeq(line, 1, 5))) > 0
    /\ ~IsSpace(CharAt(line, 5))
    /\ \A k \in 1..((Len(line) - 5) \div 12) :
           /\ float_pattern(Strip(LayoutColumn(line, k)))
           /\ ~IsSpace(CharAt(line, 12 * k + 5))
\* The numbers of the columns of a layout row.
LayoutFloats(line) ==
    [k \in 1..((Len(line) - 5) \div 12) |-> ToFloat(Strip(LayoutColumn(line, k)))]
ReadsGradientRow(st, line) ==
    /\ ActiveModes(st) = {"parse_gradient"}
    /\ st.grad_comp.t = "list"
    /\ IsLayoutRow(line)

\* C25: a gradient data row in the fixed-width layout parses into one float
\* per column, the numbers of its columns, also when a number fills its
\* column and touches the field before it.
C25_CrampedColumns ==
    [][(at' = at + 1 /\ ReadsGradientRow(out, Flatten(log)[at + 1])) =>
          out'.grad_comp = PyList(Append(out.grad_comp.v,
                                         LayoutFloats(Flatten(log)[at + 1])))]_vars

(***************************************************************************)
(* Properties of QcOutput, checked under SpecOutput                       *)
(***************************************************************************)
\* The chunk of job k of the file: the log the job wrote, after what the
\* split leaves of the job's header line.
ChunkOfJob(k) == IF k = 1 THEN log[k] ELSE <<"">> \o log[k]

\* C26: QcOutput has one record for every chunk of the file, in the order of
\* the chunks, and record k is what _parse_job makes of chunk k alone,
\* whatever the other chunks are.
C26_ChunkIndependence ==
    call.op = "QcOutput" =>
        /\ err = ""
        /\ Len(ret.v) = Len(log)
        /\ \A k \in 1..Len(log) : ret.v[k] = _parse_job(ChunkOfJob(k)).data

(***************************************************************************)
(* More properties of QcOutput._parse_job, checked under SpecLog          *)
(***************************************************************************)
\* The locals st once the error scan has seen line.
Scanned(st, line) == [st EXCEPT !.errors = @ \o ErrorLabels(line)]
\* What reading line does in the echoed-input state: st the locals before,
\* nx after, r what the codec makes of the buffer.
EchoStep(st, nx, line, r) ==
    IF ~Contains(line, Dashes(50))
    THEN nx = [Scanned(st, line) EXCEPT !.qctask_lines = Append(@, line)]
    ELSE IF Len(st.qctask_lines) = 0 THEN nx = Scanned(st, line)
    ELSE /\ r.err = ""
         /\ nx.qctask = r.task
         /\ nx.jobtype = Rem(r.task)["jobtype"]
         /\ ActiveModes(nx) = {}

\* C27: a 'User input:' line read in the idle state opens the echoed input;
\* from then on every line only goes to the input buffer, up to the first
\* line with 50 dashes read while the buffer is not empty; a line with 50
\* dashes read while it is empty is skipped; at the closing line the buffer is
\* parsed into the input of the record, jobtype becomes its rem jobtype, and
\* the parser is idle again.
C27_EchoInput ==
    [][at' = at + 1 =>
          /\ (ActiveModes(out) = {} /\ Contains(Flatten(log)[at + 1], "User input:"))
                 => out'.parse_input
          /\ out.parse_input
                 => EchoStep(out, out', Flatten(log)[at + 1],
                             from_string(Join(out.qctask_lines, "\n")))]_vars

\* What a section's contents give: the keys they hold
Gives(data, key) == key \in DOMAIN data
TargetIncomplete(t) ==
    ~Gives(t, "file") /\ (~Gives(t, "collection") \/ ~Gives(t, "db"))
SourceIncomplete(s) == ~Gives(s, "file") /\ ~Gives(s, "collection")
SectionMissing(conf) == ~Gives(conf, "sources") \/ ~Gives(conf, "target")
ConfRejected(conf) ==
    \/ SectionMissing(conf)
    \/ TargetIncomplete(conf["target"])
    \/ \E i \in 1..Len(conf["sources"]) : SourceIncomplete(conf["sources"][i])
IoTypeOf(data) == IF Gives(data, "file") THEN IO_FILE ELSE IO_MONGO
ClassifiedAs(conf, runner) ==
    /\ runner.target_io_type = IoTypeOf(conf["target"])
    /\ Len(runner.source_io_types) = Len(conf["sources"])
    /\ \A i \in 1..Len(conf["sources"]) :
           runner.source_io_types[i] = IoTypeOf(conf["sources"][i])
\* C29: constructing an ETLRunner fails with ValueError when a section is
\* missing, when the target gives no 'file' and lacks 'collection' or 'db',
\* and when a source gives neither 'file' nor 'collection'; a runner that is
\* constructed has its target and every source classified as file I/O exactly
\* when 'file' is given and as MongoDB I/O otherwise.
C29_TargetCheck ==
    call.op = "ETLRunner" =>
        /\ ConfRejected(call.arg) => err = "ValueError"
        /\ err = "" => ClassifiedAs(call.arg, ret)

\* C28: every failure of ETLRunner.run reaches the caller as ETLError and as
\* no other exception; a run in which nothing fails returns the number of
\* configured sources, having run them in configured order.
C28_UniformFailure ==
    call.op = "run" =>
        /\ err \in {"", "ETLError"}
        /\ err = "" => ret.n = Len(call.arg.sources) /\ ret.ran = call.arg.sources

\* C30: reverse_readline yields the lines of a file in reverse order: the item
\* at position idx (from 0) is line N - idx of the N lines of the file, and
\* the iteration ends after N items, so that every line was yielded once.
C30_ReverseOrder ==
    call.op = "reverse_readline" =>
        /\ at <= Len(call.arg)
        /\ at > 0 => ret = PyStr(call.arg[Len(call.arg) - (at - 1)])
        /\ pc = "done" => at = Len(call.arg)
C30_Witness ==
    /\ call.op = "reverse_readline"
    /\ pc = "done"
    /\ call.arg = <<"1", "2", "3">>
    /\ at = 3
    /\ ret = PyStr("1")

\* The setters that check their argument
CheckingSetters ==
    {"set_basis_set", "set_auxiliary_basis_set", "set_ecp",
     "set_scf_algorithm_and_iterations", "set_dft_grid", "set_scf_initial_guess",
     "set_geom_opt_coords_type", "scale_geom_opt_threshold"}
\* Invariant I3 of a job: a per-element basis or auxiliary basis names the
\* molecule's elements exactly, a per-element ecp names no other element.
I3(t) ==
    IsMolecule(t.mol) =>
        /\ \A sec \in {"basis", "aux_basis"} \cap DOMAIN t.params :
               DOMAIN t.params[sec].v = MolElements(t.mol)
        /\ "ecp" \in DOMAIN t.params =>
               DOMAIN t.params["ecp"].v \subseteq MolElements(t.mol)
\* C31: a setter call that fails leaves params as it was before the call, and
\* so a job that satisfied I3 before a setter call, successful or failed,
\* satisfies it after the call.
C31_FailedSetterUnchanged ==
    call.op \in CheckingSetters =>
        /\ err # "" => task.params = orig.params
        /\ I3(orig) => I3(task)

\* C32: no construction path returns a job that violates I3: neither
\* QcTask.from_string on a text whose $basis, $aux_basis or $ecp section names
\* other elements than the Cartesian $molecule section, nor the constructor
\* with such a mapping in optional_params.
C32_I3OnConstruction ==
    (call.op \in {"QcTask", "from_string"} /\ err = "") => I3(task)

\* The value token of the line is a known alias and is stored as its
\* canonical value, a string.
AliasStored(tokens) ==
    (Len(tokens) >= 2 /\ tokens[2] \in DOMAIN alternative_values) =>
        /\ err = ""
        /\ StoredKey(Lower(tokens[1])) \in DOMAIN ret.v
        /\ IsStr(ret.v[StoredKey(Lower(tokens[1]))])
        /\ ret.v[StoredKey(Lower(tokens[1]))].v = alternative_values[tokens[2]]
\* C33: a $rem line whose value token is a value alias ('optimization',
\* 'frequency') parses, and the canonical value ('opt', 'freq') is stored
\* under the key as a string; a job text with `jobtype = optimization` parses
\* to a job with rem.jobtype = 'opt'.  Stated of the last line of the section,
\* and of the text of a job whose stored jobtype is the alias.
C33_ValueAliases ==
    /\ call.op = "_parse_rem" => AliasStored(KeyValueTokens(call.arg[Len(call.arg)]))
    /\ (/\ call.op = "from_string"
        /\ orig # NoTask
        /\ Rem(orig)["jobtype"].v = "optimization") =>
            /\ err = ""
            /\ IsStr(Rem(task)["jobtype"])
            /\ Rem(task)["jobtype"].v = "opt"

\* The lines of the chunk that hold the signature
LinesWith(lines, sig) == Cardinality({i \in 1..Len(lines) : Contains(lines[i], sig)})
\* The copies of a label a job is to end with: one for every line that
\* matched its signature, else one if the post-pass finds its condition.
CopiesDue(k, unsuccessful) == IF k >= 1 THEN k ELSE IF unsuccessful THEN 1 ELSE 0
\* The post-pass added at most one copy of the label, and none to a list
\* that had one.
AtMostOnceMore(label) ==
    /\ Count(ret.errors, label) <= Count(out.errors, label) + 1
    /\ Count(out.errors, label) >= 1 => Count(ret.errors, label) = Count(out.errors, label)
\* C34: the errors of a job hold 'Bad SCF convergence' k times when k >= 1
\* lines matched 'Convergence failure', once when none did and the job is not
\* SCF-converged, and not otherwise; likewise 'Geometry optimization failed'
\* with 'MAXIMUM OPTIMIZATION CYCLES REACHED' and an unsuccessful job of
\* jobtype opt.  The post-pass never adds a second copy of either label.
C34_DuplicateSuppression ==
    (call.op = "_parse_job" /\ err = "") =>
        /\ Count(ret.errors, "Bad SCF convergence")
               = CopiesDue(LinesWith(Flatten(log), "Convergence failure"),
                           ~out.scf_successful)
        /\ Count(ret.errors, "Geometry optimization failed")
               = CopiesDue(LinesWith(Flatten(log), "MAXIMUM OPTIMIZATION CYCLES REACHED"),
                           IsJobtype(ret.jobtype, "opt") /\ ~out.opt_successful)
        /\ AtMostOnceMore("Bad SCF convergence")
        /\ AtMostOnceMore("Geometry optimization failed")
\* Two lines reported a convergence failure and the job ends with two copies
\* of the label, the post-pass having added none.
C34_Witness ==
    /\ call.op = "_parse_job" /\ err = ""
    /\ LinesWith(Flatten(log), "Convergence failure") = 2
    /\ ~out.scf_successful
    /\ Count(ret.errors, "Bad SCF convergence") = 2

\* The line the loop of _parse_coords reads next, stripped
NextCoordLine == Strip(Flatten(log)[at + 1])
\* The turn took the line as a Cartesian line: its first token is the new
\* species, its coordinate fields are the new coordinates.
TakenAsCartesian(st, new, toks) ==
    /\ ~new.zmode
    /\ new.species = Append(st.species, toks[1])
    /\ new.coords = Append(st.coords, Floats(CoordFields(toks)))
\* The turn took the line as a Z-matrix line: the mode is set, and the atom,
\* if one was placed, has coordinates the Geometry Builder computed.
TakenAsZmat(st, new, toks) ==
    /\ new.zmode
    /\ new.err = "" => new.species = Append(st.species, toks[1])
    /\ Len(new.coords) > Len(st.coords) /\ Len(toks) > 1
           => new.coords = Append(st.coords, ZmatCoords)
CoordTurn(st, new, l) ==
    /\ st.zmode => new.zmode
    /\ st.zmode /\ l # "" /\ zmat_patt(l) => TakenAsZmat(st, new, CoordTokens(l))
    /\ l # "" /\ ~zmat_patt(l) => new = st
    /\ ~st.zmode /\ xyz_patt(l) =>
           new.err = "ValueError" \/ TakenAsCartesian(st, new, CoordTokens(l))
\* The lines before the first blank line
BeforeBlank(lines) ==
    SubSeq(lines, 1, Least({i \in 1..Len(lines) : Strip(lines[i]) = ""} \cup {Len(lines) + 1}) - 1)
\* The geometry lines: those of the shape of a Cartesian or a Z-matrix line
GeometryLines(lines) ==
    SelectSeq(lines, LAMBDA l : xyz_patt(Strip(l)) \/ zmat_patt(Strip(l)))
AtomPerLine(mol, glines) ==
    /\ Len(mol.v.sites) = Len(glines)
    /\ \A i \in 1..Len(glines) :
           mol.v.sites[i].species = ParseSpecies(CoordTokens(glines[i])[1])
\* C35: in the loop of _parse_coords the Z-matrix mode, once set, stays set,
\* and from then on no line is taken as a Cartesian line, whatever its
\* shape; before that every line of Cartesian shape is taken as Cartesian;
\* the molecule returned has one atom for every geometry line before the
\* first blank line, in the order of the lines.
C35_ZmatModePermanent ==
    /\ [][(pc = "geometry" /\ at' = at + 1) => CoordTurn(out, out', NextCoordLine)]_vars
    /\ []((call.op = "_parse_coords" /\ err = "")
              => AtomPerLine(ret, GeometryLines(BeforeBlank(Flatten(log)))))
\* A line of Cartesian shape came after a Z-matrix line and its atom was
\* placed as a Z-matrix atom.
C35_Witness ==
    /\ call.op = "_parse_coords" /\ err = ""
    /\ Flatten(log) = <<" C 0.0 0.0 0.0", " O", " O 0 0 1.1">>
    /\ Len(ret.v.sites) = 3
    /\ ret.v.sites[3].xyz = ZmatCoords

\* C36: the calls on a CollectionOutputStream complete without error,
\* beginning with its construction, which leaves a stream with an empty
\* buffer that batches exactly when its batch size is positive.
C36_BatchedStream ==
    call.op = "CollectionOutputStream" =>
        /\ err = ""
        /\ ret._batch_data = << >>
        /\ ret._batched = PyBool(call.arg.v > 0)

\* The number of sections of an outline that are headed name.
SectionsHeaded(o, name) == Cardinality({i \in 1..Len(o.headers) : o.headers[i] = name})

\* C37: str(task) completes without error for every QcTask, and its text
\* holds one section for every section held in params, under the section's
\* lower-case name.
C37_AcceptedSerializable ==
    call.op = "__str__" =>
        /\ err = ""
        /\ \A sec \in DOMAIN orig.params : SectionsHeaded(Outline(text), Lower(sec)) = 1

\* The record has no error label.
ErrorFree(data) == Len(data.errors) = 0
\* C38: a record _parse_job returns has has_error exactly when its errors
\* list is not empty; a chunk without an echoed input carries 'No input
\* text'; and a record with no error has its input set, comes from a chunk
\* in which both the charge and the spin multiplicity were found and whose
\* last SCF attempt reported convergence, and, for jobtype 'opt', from one
\* whose optimization was marked successful.
C38_ErrorFreeRecognised ==
    (call.op = "_parse_job" /\ err = "") =>
        /\ ret.has_error <=> ~ErrorFree(ret)
        /\ ~HasInput(out) => Has(ret.errors, "No input text")
        /\ ErrorFree(ret) =>
              /\ DOMAIN ret.input.params # {}
              /\ BothFound(out)
              /\ Len(out.scf_iters) \in ConvergedAttempts(Flatten(log))
              /\ IsJobtype(ret.jobtype, "opt") => out.opt_successful
\* An optimization job whose record has no error.
C38_Witness ==
    /\ call.op = "_parse_job" /\ err = ""
    /\ ErrorFree(ret)
    /\ IsJobtype(ret.jobtype, "opt")

\* params holds both sections of the PCM solvent model.
HasPcmSections(t) == {"pcm", "pcm_solvent"} \subseteq DOMAIN t.params
SolventMethodIs(t, name) ==
    /\ "solvent_method" \in DOMAIN Rem(t)
    /\ IsStr(Rem(t)["solvent_method"]) /\ Rem(t)["solvent_method"].v = name
\* The keys use_pcm was given, lower-cased, none for no mapping.
GivenKeys(d) == IF IsDict(d) THEN {Lower(k) : k \in DOMAIN d.v} ELSE {}
\* The entry use_pcm was given under a key of lower-case form k.
GivenEntry(d, k) == LowerIfStr(d.v[CHOOSE x \in DOMAIN d.v : Lower(x) = k])
\* After use_pcm: $pcm holds theory, vdwscale and radii and nothing the call
\* did not name, a value the caller gave standing in front of the default
\* (radii being bondi when a force field is given), and $pcm_solvent holds
\* what this call gave alone.
PcmWritten(t, a) ==
    /\ {"theory", "vdwscale", "radii"} \subseteq DOMAIN t.params["pcm"].v
    /\ DOMAIN t.params["pcm"].v = GivenKeys(a.pcm_params) \cup {"theory", "vdwscale", "radii"}
    /\ \A k \in GivenKeys(a.pcm_params) :
          (k # "radii" \/ ~Truthy(a.radii_force_field))
              => t.params["pcm"].v[k] = GivenEntry(a.pcm_params, k)
    /\ DOMAIN t.params["pcm_solvent"].v =
           IF GivenKeys(a.solvent_params) = {} THEN {"dielectric"}
           ELSE GivenKeys(a.solvent_params)
    /\ \A k \in GivenKeys(a.solvent_params) :
          t.params["pcm_solvent"].v[k] = GivenEntry(a.solvent_params, k)
\* C39: after a use_pcm or use_cosmo call, params holds the pcm and
\* pcm_solvent sections exactly when rem.solvent_method is 'pcm'; after
\* use_pcm, $pcm has theory, vdwscale and radii, with the caller's values in
\* front of the defaults, and both sections are those of this call alone.
C39_SolventConsistent ==
    /\ call.op \in {"use_pcm", "use_cosmo"} =>
          (err = "" /\ (HasPcmSections(task) <=> SolventMethodIs(task, "pcm")))
    /\ call.op = "use_pcm" => (HasPcmSections(task) /\ PcmWritten(task, call.arg))

\* The list QcInput makes of its argument: a single QcTask is wrapped.
JobsGiven(arg) ==
    IF IsQcTask(arg) THEN <<arg>> ELSE IF arg.t = "list" THEN arg.v ELSE <<arg>>
AllJobModels(js) == \A i \in 1..Len(js) : IsQcTask(js[i])
\* C40: QcInput(jobs) returns, for every list of QcTask objects, the empty
\* list included, and for a single QcTask, an object whose jobs attribute is
\* the list given (the one job wrapped into a list); it raises when an
\* element is no QcTask.
C40_SequenceConstruction ==
    call.op = "QcInput" =>
        IF AllJobModels(JobsGiven(call.arg))
        THEN err = "" /\ ret.t = "list" /\ ret.v = JobsGiven(call.arg)
        ELSE err # ""

=============================================================================
